---- MODULE Spec2Model ----
(***************************************************************************)
(* Model of the subagent slot pool (provision / unlock / claim) and of the *)
(* file-mediated dispatch protocol of EntityProcess/subagent.              *)
(*                                                                         *)
(* The pool lives in one filesystem record `fs`.  A slot directory         *)
(* "subagent-N" is identified by its ordinal N; directory names are        *)
(* formatted and parsed digit by digit, as the code does.                  *)
(***************************************************************************)
EXTENDS Integers, Sequences, FiniteSets, TLC

\* ------------------------------------------------------------------ bounds
MaxSlot == 3            \* highest slot ordinal the model lets the pool hold
PoolSize == 2           \* largest pool a dispatch run starts from
ReadyPolls == 2         \* polls of the liveness marker that fit in the readiness timeout
MaxTs == 2              \* distinct second-resolution timestamps the clock can yield
MaxFolders == 3         \* longest folder list of a workspace template
MaxKeyLen == 4          \* longest key of a settings location map, in characters

\* ------------------------------------------------------- program constants
maxAttempts == 10       \* waitForResponseOutput: bounded read retry

Ordinals == 1..MaxSlot
Null == 0               \* `null` result of findUnlockedSubagent / no directory

\* ---------------------------------------------------------- names, parsing
DigitChars == <<"0", "1", "2", "3", "4", "5", "6", "7", "8", "9">>

IsDigit(c) == \E i \in 1..10 : DigitChars[i] = c

DigitVal(c) == (CHOOSE i \in 1..10 : DigitChars[i] = c) - 1

\* `subagent-${n}`: the decimal digits of n
RECURSIVE Digits(_)
Digits(n) == IF n < 10 THEN <<DigitChars[n + 1]>>
             ELSE Append(Digits(n \div 10), DigitChars[(n % 10) + 1])

NaN == -1

\* Number.parseInt(s, 10): the longest prefix of decimal digits, NaN if none
RECURSIVE ParseDigits(_, _, _)
ParseDigits(s, i, acc) ==
    IF i > Len(s) \/ ~IsDigit(s[i]) THEN acc
    ELSE ParseDigits(s, i + 1, acc * 10 + DigitVal(s[i]))

parseInt(s) == IF Len(s) = 0 \/ ~IsDigit(s[1]) THEN NaN ELSE ParseDigits(s, 1, 0)

isInteger(x) == x # NaN

\* A directory entry: its name split at the first "-", and `ord`, which stands
\* for its absolute path (the ordinal for a slot, a negative id otherwise).
SlotEntry(n) == [prefix |-> "subagent-", suffix |-> Digits(n), isDirectory |-> TRUE, ord |-> n]

\* Directory entries under the root that are not slots.
JunkEntries ==
    { [prefix |-> "subagent-", suffix |-> <<"x">>, isDirectory |-> TRUE, ord |-> -1],
      [prefix |-> "subagent-", suffix |-> <<"0">>, isDirectory |-> FALSE, ord |-> -2],
      [prefix |-> "notes-", suffix |-> <<"1">>, isDirectory |-> TRUE, ord |-> -3] }

\* ------------------------------------------------------------- filesystem
\* Workspace configuration contents: absent, the raw template written by
\* provision, or a template materialized by a dispatch.
Configs == {"absent", "raw", "default", "custom"}

Kinds == {"req", "tmp", "res"}
Files == [ts : 1..MaxTs, kind : Kinds]
ChatIds == {"c0", "c1", "c2", "wakeup"}      \* "c0": an earlier occupant; "wakeup": the liveness chat

EmptyFs ==
    [ rootExists |-> FALSE,
      slots      |-> {},
      junk       |-> {},
      lock       |-> {},
      workspace  |-> [n \in Ordinals |-> "absent"],
      messages   |-> [n \in Ordinals |-> {}],
      chatmode   |-> [n \in Ordinals |-> {}],
      alive      |-> {},
      defaultRoot |-> [rootExists |-> FALSE, slots |-> {}, junk |-> {}, lock |-> {}] ]

\* utils/fs.ts
pathExists(set, x) == x \in set

readDirEntries(f) == { SlotEntry(n) : n \in f.slots } \cup f.junk

removeIfExists(set, x) == set \ {x}

\* entries.filter(isDirectory && startsWith("subagent-")).map(parseInt)
\*        .filter(Number.isInteger)
Candidates(f) ==
    { e \in readDirEntries(f) :
        /\ e.isDirectory
        /\ e.prefix = "subagent-"
        /\ isInteger(parseInt(e.suffix)) }

\* .sort((a, b) => a.number - b.number)
RECURSIVE SortByNumber(_)
SortByNumber(es) ==
    IF es = {} THEN <<>>
    ELSE LET m == CHOOSE e \in es : \A o \in es : parseInt(e.suffix) <= parseInt(o.suffix)
         IN  <<m>> \o SortByNumber(es \ {m})

\* mutant: the scan that returns the first slot without testing its lock marker
FirstUnlocked_IgnoreLock(f, subagents, i) ==
    IF i > Len(subagents) THEN Null ELSE subagents[i].ord

\* for (const subagent of subagents) if (!pathExists(lockFile)) return it
RECURSIVE FirstUnlocked(_, _, _)
FirstUnlocked(f, subagents, i) ==
    IF i > Len(subagents) THEN Null
    ELSE IF ~pathExists(f.lock, subagents[i].ord) THEN subagents[i].ord
    ELSE FirstUnlocked(f, subagents, i + 1)

findUnlockedSubagent(f) ==
    IF ~f.rootExists THEN Null
    ELSE FirstUnlocked(f, SortByNumber(Candidates(f)), 1)

\* ------------------------------------------------------------ provision.ts
\* mutant: a force pass that leaves the slot's configuration as it was
WriteTemplate_Keep(f, n) == f

\* JSON.stringify(workspaceTemplate) written to the slot's configuration,
\* wakeupContent to its wakeup.chatmode.md
WriteTemplate(f, n) ==
    [f EXCEPT !.workspace[n] = "raw", !.chatmode[n] = @ \cup {"wakeup"}]

\* mutant: a reuse that rewrites the configuration whether it is there or not
NeedsBackfill_Always(f, n) == TRUE

\* !(await pathExists(workspaceDst))
NeedsBackfill(f, n) == ~pathExists({ k \in Ordinals : f.workspace[k] # "absent" }, n)

\* mutant: new slots numbered from the number of slots, not from the highest ordinal
HighestNumber_Count(es) == Cardinality(es)

\* Math.max(highestNumber, parsed) over the enumerated slots
RECURSIVE HighestNumber(_)
HighestNumber(es) ==
    IF es = {} THEN 0
    ELSE LET e == CHOOSE x \in es : TRUE
             h == HighestNumber(es \ {e})
         IN  IF parseInt(e.suffix) > h THEN parseInt(e.suffix) ELSE h

\* mutant: a provision that never reuses an existing slot
ExistingPass_NoReuse(acc, existing, i, subagents, force, dryRun) == acc

\* one iteration of the pass over the existing slots, on slot n: skip a locked
\* slot, or (force) unlock and rewrite it, or reuse it and backfill
ExistingStep(acc, n, force, dryRun) ==
    LET isLocked == pathExists(acc.fs.lock, n)
    IN  IF isLocked /\ ~force THEN acc
        ELSE IF isLocked /\ force
          THEN [acc EXCEPT
                  !.fs = IF dryRun THEN @
                         ELSE WriteTemplate([@ EXCEPT !.lock = removeIfExists(@, n)], n),
                  !.created = Append(@, n),
                  !.lockedSubagents = @ \ {n},
                  !.provisioned = @ + 1]
        ELSE IF force
          THEN [acc EXCEPT
                  !.fs = IF dryRun THEN @ ELSE WriteTemplate(@, n),
                  !.created = Append(@, n),
                  !.provisioned = @ + 1]
        ELSE [acc EXCEPT
                  !.fs = IF ~dryRun /\ NeedsBackfill(@, n)
                           THEN WriteTemplate(@, n) ELSE @,
                  !.skippedExisting = Append(@, n),
                  !.provisioned = @ + 1]

\* the pass over the existing slots (provision.ts, for ... of existingSubagents)
RECURSIVE ExistingPass(_, _, _, _, _, _)
ExistingPass(acc, existing, i, subagents, force, dryRun) ==
    IF i > Len(existing) \/ acc.provisioned >= subagents THEN acc
    ELSE ExistingPass(ExistingStep(acc, existing[i].ord, force, dryRun),
                      existing, i + 1, subagents, force, dryRun)

\* mutant: the creating pass that numbers from the highest ordinal, not past it
RECURSIVE CreatePass_FromHighest(_, _, _, _)
CreatePass_FromHighest(acc, nextIndex, subagents, dryRun) ==
    IF acc.provisioned >= subagents THEN acc
    ELSE LET n == IF nextIndex = 0 THEN 1 ELSE nextIndex
         IN  CreatePass_FromHighest(
               [acc EXCEPT
                  !.fs = IF dryRun THEN @
                         ELSE WriteTemplate([@ EXCEPT !.slots = @ \cup {n}], n),
                  !.created = Append(@, n),
                  !.provisioned = @ + 1],
               n, subagents, dryRun)

\* one iteration of the creating pass: ensureDir(subagent-n), write its files
CreateStep(acc, n, dryRun) ==
    [acc EXCEPT
       !.fs = IF dryRun THEN @
              ELSE WriteTemplate([@ EXCEPT !.slots = @ \cup {n}], n),
       !.created = Append(@, n),
       !.provisioned = @ + 1]

\* the pass that creates new slots (provision.ts, while subagentsProvisioned < subagents)
RECURSIVE CreatePass(_, _, _, _)
CreatePass(acc, nextIndex, subagents, dryRun) ==
    IF acc.provisioned >= subagents THEN acc
    ELSE CreatePass(CreateStep(acc, nextIndex + 1, dryRun), nextIndex + 1, subagents, dryRun)

\* mutant: a provision that reports no locked slot
SortPaths_Empty(ns) == <<>>

\* Array.prototype.sort() on the absolute paths: string order of the names
RECURSIVE LexLess(_, _, _)
LexLess(a, b, i) ==
    IF i > Len(a) THEN i <= Len(b)
    ELSE IF i > Len(b) THEN FALSE
    ELSE IF a[i] = b[i] THEN LexLess(a, b, i + 1)
    ELSE DigitVal(a[i]) < DigitVal(b[i])

RECURSIVE SortPaths(_)
SortPaths(ns) ==
    IF ns = {} THEN <<>>
    ELSE LET m == CHOOSE n \in ns :
                    \A o \in ns \ {n} : LexLess(Digits(n), Digits(o), 1)
         IN  <<m>> \o SortPaths(ns \ {m})

\* mutant: a provision that creates the root directory even on a dry run
provisionSubagents_EnsureDir(f, subagents, force, dryRun) ==
    LET f1 == [f EXCEPT !.rootExists = TRUE]
        enumerated == Candidates(f1)
        acc0 == [ fs |-> f1,
                  created |-> <<>>,
                  skippedExisting |-> <<>>,
                  lockedSubagents |-> { e.ord : e \in { x \in enumerated : pathExists(f1.lock, x.ord) } },
                  provisioned |-> 0 ]
        acc1 == ExistingPass(acc0, SortByNumber(enumerated), 1, subagents, force, dryRun)
        acc2 == CreatePass(acc1, HighestNumber(enumerated), subagents, dryRun)
    IN  [ fs |-> acc2.fs,
          created |-> acc2.created,
          skippedExisting |-> acc2.skippedExisting,
          skippedLocked |-> SortPaths(acc2.lockedSubagents) ]

provisionSubagents(f, subagents, force, dryRun) ==
    LET f1 == IF dryRun THEN f ELSE [f EXCEPT !.rootExists = TRUE]
        enumerated == IF f1.rootExists THEN Candidates(f1) ELSE {}
        existingSubagents == SortByNumber(enumerated)
        acc0 == [ fs |-> f1,
                  created |-> <<>>,
                  skippedExisting |-> <<>>,
                  lockedSubagents |-> { e.ord : e \in { x \in enumerated : pathExists(f1.lock, x.ord) } },
                  provisioned |-> 0 ]
        acc1 == ExistingPass(acc0, existingSubagents, 1, subagents, force, dryRun)
        acc2 == CreatePass(acc1, HighestNumber(enumerated), subagents, dryRun)
    IN  [ fs |-> acc2.fs,
          created |-> acc2.created,
          skippedExisting |-> acc2.skippedExisting,
          skippedLocked |-> SortPaths(acc2.lockedSubagents) ]

\* mutant: an unlock of all that stops after the first locked slot
UnlockPass_First(acc, candidates, i, dryRun) ==
    IF candidates = <<>> \/ ~pathExists(acc.fs.lock, candidates[1].ord) THEN acc
    ELSE [ fs |-> IF dryRun THEN acc.fs
                  ELSE [acc.fs EXCEPT !.lock = removeIfExists(@, candidates[1].ord)],
           unlocked |-> <<candidates[1].ord>> ]

\* unlockSubagents: subagentName is Null (undefined) or the ordinal of the
\* named directory "subagent-N".
RECURSIVE UnlockPass(_, _, _, _)
UnlockPass(acc, candidates, i, dryRun) ==
    IF i > Len(candidates) THEN acc
    ELSE LET n == candidates[i].ord
         IN  IF pathExists(acc.fs.lock, n)
               THEN UnlockPass(
                      [ fs |-> IF dryRun THEN acc.fs
                               ELSE [acc.fs EXCEPT !.lock = removeIfExists(@, n)],
                        unlocked |-> Append(acc.unlocked, n) ],
                      candidates, i + 1, dryRun)
               ELSE UnlockPass(acc, candidates, i + 1, dryRun)

\* mutant: an unlock that never raises and clears every marker under the root
unlockSubagents_Sweep(f, subagentName, unlockAll, dryRun) ==
    [ fs |-> IF dryRun THEN f ELSE [f EXCEPT !.lock = {}],
      unlocked |-> IF subagentName # Null /\ pathExists(f.lock, subagentName)
                     THEN <<subagentName>> ELSE <<>>,
      error |-> "none" ]

unlockSubagents(f, subagentName, unlockAll, dryRun) ==
    IF (subagentName = Null /\ ~unlockAll) \/ (subagentName # Null /\ unlockAll)
      THEN [fs |-> f, unlocked |-> <<>>, error |-> "must specify either --subagent or --all"]
    ELSE IF ~f.rootExists
      THEN [fs |-> f, unlocked |-> <<>>, error |-> "target root does not exist"]
    ELSE IF unlockAll
      THEN LET r == UnlockPass([fs |-> f, unlocked |-> <<>>],
                               SortByNumber(Candidates(f)), 1, dryRun)
           IN  [fs |-> r.fs, unlocked |-> r.unlocked, error |-> "none"]
    ELSE IF ~pathExists(f.slots, subagentName)
      THEN [fs |-> f, unlocked |-> <<>>, error |-> "does not exist"]
    ELSE IF pathExists(f.lock, subagentName)
      THEN [ fs |-> IF dryRun THEN f ELSE [f EXCEPT !.lock = removeIfExists(@, subagentName)],
             unlocked |-> <<subagentName>>, error |-> "none" ]
    ELSE [fs |-> f, unlocked |-> <<>>, error |-> "none"]

\* ------------------------------------------------------------ workspace.ts
\* A path is its root flag and its segments between separators:
\* "./lib" is [abs |-> FALSE, segs |-> <<".", "lib">>], "/" is [abs |-> TRUE, segs |-> <<>>].
Path(abs, segs) == [abs |-> abs, segs |-> segs]

Dot == Path(FALSE, <<".">>)

\* path.isAbsolute (POSIX)
isAbsolute(p) == p.abs

\* path.normalize on the segments of an absolute path: "." and empty segments
\* are dropped, ".." removes the segment before it and is dropped at the root
RECURSIVE NormalizeSegs(_, _, _)
NormalizeSegs(segs, i, acc) ==
    IF i > Len(segs) THEN acc
    ELSE IF segs[i] = "." THEN NormalizeSegs(segs, i + 1, acc)
    ELSE IF segs[i] = ".."
      THEN NormalizeSegs(segs, i + 1, IF acc = <<>> THEN acc ELSE SubSeq(acc, 1, Len(acc) - 1))
    ELSE NormalizeSegs(segs, i + 1, Append(acc, segs[i]))

\* mutant: a resolve that joins the two paths without normalizing the result
resolve_Join(from, to) ==
    IF to.abs THEN to ELSE Path(TRUE, from.segs \o to.segs)

\* path.resolve(from, to), `from` absolute
resolve(from, to) ==
    IF to.abs THEN Path(TRUE, NormalizeSegs(to.segs, 1, <<>>))
    ELSE Path(TRUE, NormalizeSegs(from.segs \o to.segs, 1, <<>>))

\* workspace.folders.map(...): absolute folders as they are, the others resolved
RECURSIVE TransformFolders(_, _, _)
TransformFolders(folders, templateDir, i) ==
    IF i > Len(folders) THEN <<>>
    ELSE LET folder == folders[i]
         IN  << IF isAbsolute(folder.path) THEN folder
                ELSE [folder EXCEPT !.path = resolve(templateDir, folder.path)] >>
             \o TransformFolders(folders, templateDir, i + 1)

\* transformWorkspacePaths, the folders: `workspace` is the parsed template,
\* hasFolders FALSE when the key is missing
transformWorkspacePaths(workspace, templateDir) ==
    IF ~workspace.hasFolders
      THEN [error |-> "Workspace file must contain a 'folders' array", folders |-> <<>>]
    ELSE [ error   |-> "none",
           folders |-> <<[path |-> Dot, name |-> "none"]>>
                       \o TransformFolders(workspace.folders, templateDir, 1) ]

\* ---- the keys of the chat settings location maps, as strings: a string is the
\* sequence of its characters, indices count from 0 as in the source
isAbsoluteString(s) == Len(s) > 0 /\ s[1] = "/"

\* locationPath.search(/[*]/): index of the first "*", -1 if there is none
RECURSIVE search(_, _)
search(s, i) ==
    IF i >= Len(s) THEN -1
    ELSE IF s[i + 1] = "*" THEN i
    ELSE search(s, i + 1)

\* s.lastIndexOf(c, fromIndex): the last index <= fromIndex that holds c, or -1
RECURSIVE lastIndexOf(_, _, _)
lastIndexOf(s, c, fromIndex) ==
    IF fromIndex < 0 THEN -1
    ELSE IF fromIndex < Len(s) /\ s[fromIndex + 1] = c THEN fromIndex
    ELSE lastIndexOf(s, c, fromIndex - 1)

\* s.substring(start, end) and s.substring(start)
substring(s, start, end) == SubSeq(s, start + 1, end)

substringFrom(s, start) == SubSeq(s, start + 1, Len(s))

\* the segments of a string between its "/" characters
RECURSIVE SplitSegs(_, _, _, _)
SplitSegs(s, i, cur, acc) ==
    IF i > Len(s) THEN Append(acc, cur)
    ELSE IF s[i] = "/" THEN SplitSegs(s, i + 1, <<>>, Append(acc, cur))
    ELSE SplitSegs(s, i + 1, Append(cur, s[i]), acc)

\* path.normalize on the segments of an absolute path, segments as strings
RECURSIVE NormalizeStringSegs(_, _, _)
NormalizeStringSegs(segs, i, acc) ==
    IF i > Len(segs) THEN acc
    ELSE IF segs[i] = <<>> \/ segs[i] = <<".">> THEN NormalizeStringSegs(segs, i + 1, acc)
    ELSE IF segs[i] = <<".", ".">>
      THEN NormalizeStringSegs(segs, i + 1,
                               IF acc = <<>> THEN acc ELSE SubSeq(acc, 1, Len(acc) - 1))
    ELSE NormalizeStringSegs(segs, i + 1, Append(acc, segs[i]))

\* "/" + segments joined by "/"; the root is "/"
RECURSIVE JoinSegs(_, _)
JoinSegs(segs, i) ==
    IF segs = <<>> THEN <<"/">>
    ELSE IF i > Len(segs) THEN <<>>
    ELSE <<"/">> \o segs[i] \o JoinSegs(segs, i + 1)

\* path.resolve(from, to) on strings, `from` absolute: no trailing separator
resolveString(from, to) ==
    JoinSegs(NormalizeStringSegs(SplitSegs(IF isAbsoluteString(to) THEN to
                                             ELSE from \o <<"/">> \o to, 1, <<>>, <<>>),
                                 1, <<>>), 1)

\* the body of the loop over a location map: the key the entry is stored under
\* (no "\\" occurs in the keys, .replace(/\\/g, "/") leaves them as they are)
transformLocationPath(locationPath, templateDir) ==
    IF isAbsoluteString(locationPath) THEN locationPath
    ELSE LET firstGlobIndex == search(locationPath, 0)
         IN  IF firstGlobIndex = -1 THEN resolveString(templateDir, locationPath)
             ELSE LET basePathEnd == lastIndexOf(locationPath, "/", firstGlobIndex)
                      basePath == IF basePathEnd # -1
                                    THEN substring(locationPath, 0, basePathEnd) ELSE <<".">>
                      patternPath == substringFrom(locationPath,
                                                   IF basePathEnd # -1 THEN basePathEnd ELSE 0)
                  IN  resolveString(templateDir, basePath) \o patternPath

\* ------------------------------------------------------------------ state
Procs == {"d1", "d2"}       \* the dispatch invocations (separate CLI runs)

VARIABLES
    fs,         \* the filesystem under the subagent root
    host,       \* the editor: workspaces it has open, wakeup chats in flight
    clock,      \* last timestamp handed out (second resolution)
    proc,       \* per dispatch: position and locals of dispatchAgent
    worker,     \* per dispatch: position of the external worker on its request
    held,       \* history: per slot, the dispatches whose marker was not removed since
    opres,      \* history: the last pool operation, its arguments and result
    inputs      \* the sets the invocations' inputs and the I/O outcomes are drawn from

vars == <<fs, host, clock, proc, worker, held, opres, inputs>>

NoOp ==
    [ op |-> "none", pre |-> EmptyFs, subagents |-> 0, force |-> FALSE, dryRun |-> FALSE,
      subagentName |-> Null, unlockAll |-> FALSE, found |-> Null,
      created |-> <<>>, skippedExisting |-> <<>>, skippedLocked |-> <<>>,
      unlocked |-> <<>>, error |-> "none",
      workspace |-> [hasFolders |-> FALSE, folders |-> <<>>], templateDir |-> [abs |-> TRUE, segs |-> <<>>],
      transformed |-> [error |-> "none", folders |-> <<>>],
      locationPath |-> <<>>, resolvedPath |-> <<>> ]

\* a path under a slot's messages directory: `${timestamp}_req.md`,
\* `${timestamp}_res.tmp.md`, `${timestamp}_res.md`
MessagePath(d, ts, kind) == [dir |-> d, ts |-> ts, kind |-> kind]

NoPath == MessagePath(Null, 0, "none")

\* mutant: a request that names the two response paths the wrong way round
createRequestPrompt_Swapped(responseFileTmp, responseFileFinal, subagentName) ==
    [ tmp    |-> responseFileFinal,
      final  |-> responseFileTmp,
      unlock |-> subagentName ]

\* createRequestPrompt: the paths and the unlock command the request names
createRequestPrompt(responseFileTmp, responseFileFinal, subagentName) ==
    [ tmp    |-> responseFileTmp,
      final  |-> responseFileFinal,
      unlock |-> subagentName ]

IdleProc ==
    [ pc |-> "idle", wait |-> FALSE, dryRun |-> FALSE, promptFile |-> "none",
      subagentDir |-> Null, chatId |-> "c1", timestamp |-> 0, polls |-> 0,
      attempts |-> 0, workspaceReady |-> TRUE, exitCode |-> -1, error |-> "none",
      out |-> <<>>, session |-> FALSE, subagentRoot |-> "default",
      workspaceTemplate |-> "none",
      responseFileTmp |-> NoPath, responseFileFinal |-> NoPath, readError |-> "none",
      request |-> [tmp |-> NoPath, final |-> NoPath, unlock |-> Null] ]

\* Every input and every I/O outcome: one invocation at a time.
AllInputs ==
    [ procs     |-> {"d1"},
      prompts   |-> {"none", "file", "missing", "directory"},
      templates |-> {"default", "custom", "notfound", "directory", "invalid", "ioerror"},
      io        |-> BOOLEAN,
      reads     |-> {"ok", "EBUSY", "EIO"},
      sessions  |-> {FALSE},
      roots     |-> {"default"} ]

\* Every input as above, by either entry point (dispatchAgent or
\* dispatchAgentSession), against the default root or a caller-supplied root.
ReuseInputs == [AllInputs EXCEPT !.sessions = BOOLEAN, !.roots = {"default", "custom"}]

\* Two invocations at once, every file operation succeeding.
RaceInputs ==
    [ procs     |-> Procs,
      prompts   |-> {"file"},
      templates |-> {"default"},
      io        |-> {TRUE},
      reads     |-> {"ok"},
      sessions  |-> {FALSE},
      roots     |-> {"default"} ]

\* ------------------------------------------------------- pool operations
\* Pool states a caller can hand to the pool operations: a slot's configuration
\* is missing, as provision wrote it, or as a dispatch materialized it.
PoolStates ==
    { [EmptyFs EXCEPT !.rootExists = r, !.slots = s, !.junk = j, !.lock = l,
                      !.workspace = [n \in Ordinals |->
                                       IF n \notin s \/ n \in b THEN "absent"
                                       ELSE IF n \in m THEN "default" ELSE "raw"]] :
        r \in BOOLEAN, s \in SUBSET Ordinals, j \in {{}, JunkEntries},
        l \in SUBSET Ordinals, b \in SUBSET Ordinals, m \in SUBSET Ordinals }

InitPool ==
    /\ fs \in { f \in PoolStates :
                  /\ f.lock \subseteq f.slots
                  /\ (~f.rootExists => f.slots = {} /\ f.junk = {})
                  /\ \A n \in Ordinals : n \notin f.slots => f.workspace[n] = "absent" }
    /\ host = [open |-> {}, wake |-> {}]
    /\ clock = 1
    /\ proc = [p \in Procs |-> IdleProc]
    /\ worker = [p \in Procs |-> "none"]
    /\ held = [n \in Ordinals |-> {}]
    /\ opres = NoOp
    /\ inputs = AllInputs

\* Each behaviour of the pool specification applies one operation to the pool
\* it drew; `opres` keeps the pool it was applied to.
Find ==
    /\ opres.op = "none"
    /\ opres' = [NoOp EXCEPT !.op = "find", !.pre = fs, !.found = findUnlockedSubagent(fs)]
    /\ UNCHANGED <<fs, host, clock, proc, worker, held, inputs>>

Provision ==
    \E subagents \in 1..MaxSlot, force \in BOOLEAN, dryRun \in BOOLEAN :
        LET plan == provisionSubagents(fs, subagents, force, TRUE)
            r == provisionSubagents(fs, subagents, force, dryRun)
        IN  /\ opres.op = "none"
            /\ \A i \in 1..Len(plan.created) : plan.created[i] \in Ordinals
            /\ fs' = r.fs
            /\ opres' = [NoOp EXCEPT !.op = "provision", !.pre = fs,
                                     !.subagents = subagents, !.force = force,
                                     !.dryRun = dryRun, !.created = r.created,
                                     !.skippedExisting = r.skippedExisting,
                                     !.skippedLocked = r.skippedLocked]
            /\ UNCHANGED <<host, clock, proc, worker, held, inputs>>

Unlock ==
    \E subagentName \in {Null} \cup Ordinals, unlockAll \in BOOLEAN, dryRun \in BOOLEAN :
        LET r == unlockSubagents(fs, subagentName, unlockAll, dryRun)
        IN  /\ opres.op = "none"
            /\ fs' = r.fs
            /\ opres' = [NoOp EXCEPT !.op = "unlock", !.pre = fs,
                                     !.subagentName = subagentName,
                                     !.unlockAll = unlockAll, !.dryRun = dryRun,
                                     !.unlocked = r.unlocked, !.error = r.error]
            /\ UNCHANGED <<host, clock, proc, worker, held, inputs>>

NextPool == Find \/ Provision \/ Unlock

SpecPool == InitPool /\ [][NextPool]_vars

\* ----------------------------------------------------- template transform
\* Folder entries a workspace template can hold.
FolderPool ==
    { [path |-> Path(a[1], a[2]), name |-> "none"] :
        a \in { <<FALSE, <<".">>>>, <<FALSE, <<".", "lib">>>>, <<FALSE, <<"lib">>>>,
                <<FALSE, <<"..", "x">>>>, <<FALSE, <<"lib", "..">>>>, <<FALSE, <<>>>>,
                <<TRUE, <<"abs", "x">>>>, <<TRUE, <<"abs", ".", "x">>>>, <<TRUE, <<>>>> } }
    \cup { [path |-> Path(FALSE, <<"lib">>), name |-> "Library"] }

TemplateDirs == { Path(TRUE, <<"t">>), Path(TRUE, <<"t", "u">>) }

RECURSIVE FolderLists(_)
FolderLists(n) ==
    IF n = 0 THEN { <<>> }
    ELSE LET shorter == FolderLists(n - 1)
         IN  shorter \cup { Append(q, f) : q \in { x \in shorter : Len(x) = n - 1 },
                                           f \in FolderPool }

InitWorkspace ==
    /\ fs = EmptyFs
    /\ host = [open |-> {}, wake |-> {}]
    /\ clock = 1
    /\ proc = [p \in Procs |-> IdleProc]
    /\ worker = [p \in Procs |-> "none"]
    /\ held = [n \in Ordinals |-> {}]
    /\ inputs = AllInputs
    /\ \E hasFolders \in BOOLEAN, folders \in FolderLists(MaxFolders),
          templateDir \in TemplateDirs :
          /\ ~hasFolders => folders = <<>>
          /\ opres = [NoOp EXCEPT !.workspace = [hasFolders |-> hasFolders, folders |-> folders],
                                  !.templateDir = templateDir]

\* copyAgentConfig: transformWorkspacePaths(workspaceContent, templateDir)
Transform ==
    /\ opres.op = "none"
    /\ opres' = [opres EXCEPT !.op = "transform",
                              !.transformed = transformWorkspacePaths(opres.workspace,
                                                                      opres.templateDir)]
    /\ UNCHANGED <<fs, host, clock, proc, worker, held, inputs>>

NextWorkspace == Transform

SpecWorkspace == InitWorkspace /\ [][NextWorkspace]_vars

\* ------------------------------------------------- template transform, settings
KeyChars == {"a", ".", "/", "*"}

RECURSIVE Strings(_)
Strings(n) ==
    IF n = 0 THEN { <<>> }
    ELSE LET shorter == Strings(n - 1)
         IN  shorter \cup { Append(q, c) : q \in { x \in shorter : Len(x) = n - 1 },
                                           c \in KeyChars }

\* the keys of the scenarios: "**/*.a", "./a/**/*.a", "a/*.a"
ScenarioKeys ==
    { <<"*", "*", "/", "*", ".", "a">>,
      <<".", "/", "a", "/", "*", "*", "/", "*", ".", "a">>,
      <<"a", "/", "*", ".", "a">> }

\* the template directory as a string (its segment names are single characters)
DirString(p) == JoinSegs([k \in 1..Len(p.segs) |-> <<p.segs[k]>>], 1)

\* a template with an empty folder list and one key in a chat settings map
InitSettings ==
    /\ fs = EmptyFs
    /\ host = [open |-> {}, wake |-> {}]
    /\ clock = 1
    /\ proc = [p \in Procs |-> IdleProc]
    /\ worker = [p \in Procs |-> "none"]
    /\ held = [n \in Ordinals |-> {}]
    /\ inputs = AllInputs
    /\ \E locationPath \in Strings(MaxKeyLen) \cup ScenarioKeys, templateDir \in TemplateDirs :
          opres = [NoOp EXCEPT !.workspace = [hasFolders |-> TRUE, folders |-> <<>>],
                               !.templateDir = templateDir,
                               !.locationPath = locationPath]

\* copyAgentConfig: transformWorkspacePaths(workspaceContent, templateDir), on a
\* template with a settings map
TransformSettings ==
    /\ opres.op = "none"
    /\ opres' = [opres EXCEPT !.op = "transformSettings",
                              !.transformed = transformWorkspacePaths(opres.workspace,
                                                                      opres.templateDir),
                              !.resolvedPath = transformLocationPath(opres.locationPath,
                                                                     DirString(opres.templateDir))]
    /\ UNCHANGED <<fs, host, clock, proc, worker, held, inputs>>

NextSettings == TransformSettings

SpecSettings == InitSettings /\ [][NextSettings]_vars

\* ------------------------------------------------------ agentDispatch.ts
ChatIdOf(p) == IF p = "d1" THEN "c1" ELSE "c2"

File(ts, kind) == [ts |-> ts, kind |-> kind]

\* lines written to stdout
OutFailure == [kind |-> "failure", slot |-> Null, ts |-> 0]
OutSuccess(d, ts) == [kind |-> "success", slot |-> d, ts |-> ts]
OutDispatched(d, ts) == [kind |-> "dispatched", slot |-> d, ts |-> ts]
OutContent(d, ts) == [kind |-> "content", slot |-> d, ts |-> ts]

\* `return code` of dispatchAgent
Returned(r, code, error) == [r EXCEPT !.pc = "done", !.exitCode = code, !.error = error]

\* mutant: an error that leaves the entry point as an exception
Thrown_Escapes(r, error) == [r EXCEPT !.pc = "crashed", !.error = error]

\* the catch block of dispatchAgent: {success: false, error}, return 1;
\* dispatchAgentSession returns {exitCode: 1, error} and prints nothing
Thrown(r, error) ==
    [r EXCEPT !.pc = "done", !.exitCode = 1, !.error = error,
              !.out = IF r.session THEN @ ELSE Append(@, OutFailure)]

\* Pools a dispatch run can start from: slots 1..n as provision left them,
\* some of them locked by earlier dispatches.
StartPool(r, n, l) ==
    [EmptyFs EXCEPT !.rootExists = r, !.slots = 1..n, !.lock = l,
                    !.workspace = [k \in Ordinals |-> IF k \in 1..n THEN "raw" ELSE "absent"]]

InitProcs ==
    /\ host = [open |-> {}, wake |-> {}]
    /\ clock = 1
    /\ proc = [p \in Procs |-> IdleProc]
    /\ worker = [p \in Procs |-> "none"]
    /\ held = [n \in Ordinals |-> {}]
    /\ opres = NoOp

InitSolo ==
    /\ \E r \in BOOLEAN, n \in 0..PoolSize, l \in SUBSET (1..PoolSize) :
          /\ l \subseteq 1..n
          /\ ~r => n = 0
          /\ fs = StartPool(r, n, l)
    /\ InitProcs
    /\ inputs = AllInputs

\* A pool whose slots were used before: configurations materialized from a
\* custom template, old messages, an old session's prompt files and the
\* liveness marker of the earlier launch left behind;
\* the default root holds slots of the same names, locked by their own users.
UsedPool(f) ==
    [f EXCEPT !.workspace = [k \in Ordinals |-> IF k \in f.slots THEN "custom" ELSE "absent"],
              !.messages  = [k \in Ordinals |->
                               IF k \in f.slots THEN {File(1, "req"), File(1, "res")} ELSE {}],
              !.chatmode  = [k \in Ordinals |->
                               IF k \in f.slots THEN {"c0", "wakeup"} ELSE {}],
              !.alive     = f.slots,
              !.defaultRoot = [rootExists |-> TRUE, slots |-> f.slots, junk |-> {},
                               lock |-> f.slots]]

InitReuse ==
    /\ \E r \in BOOLEAN, n \in 0..PoolSize, l \in SUBSET (1..PoolSize), used \in BOOLEAN :
          /\ l \subseteq 1..n
          /\ ~r => n = 0
          /\ fs = IF used THEN UsedPool(StartPool(r, n, l)) ELSE StartPool(r, n, l)
    /\ InitProcs
    /\ inputs = ReuseInputs

InitRace ==
    /\ \E n \in 1..PoolSize : fs = StartPool(TRUE, n, {})
    /\ InitProcs
    /\ inputs = RaceInputs

\* Options are read where dispatchAgent first uses them: the prompt file at the
\* start, dryRun when preparing, wait after the launch.
\* dispatchAgent, up to the prompt file checks
Start(p) ==
    /\ proc[p].pc = "idle"
    /\ p \in inputs.procs
    /\ p = "d2" => proc["d1"].pc # "idle"      \* the two invocations are interchangeable
    /\ \E promptFile \in inputs.prompts, session \in inputs.sessions :
          LET r == [proc[p] EXCEPT !.promptFile = promptFile, !.chatId = ChatIdOf(p),
                                   !.session = session]
          IN  proc' = [proc EXCEPT ![p] =
                         IF promptFile = "missing" THEN Thrown(r, "PromptNotFound")
                         ELSE IF promptFile = "directory" THEN Thrown(r, "PromptIsDirectory")
                         ELSE [r EXCEPT !.pc = "claim"]]
    /\ UNCHANGED <<fs, host, clock, worker, held, opres, inputs>>

\* const subagentDir = await findUnlockedSubagent(root); prepareSubagentDirectory
\* is called with the workspaceTemplate option and returns at once on a dry run
\* `fs` is the root the dispatch scans: the default root, or the root the
\* caller supplied (subagentRoot ?? getSubagentRoot(vscodeCmd)).
\* mutant: a dry run that prepares the slot all the same
Claim_PrepareAnyway(p) ==
    /\ proc[p].pc = "claim"
    /\ \E dryRun \in BOOLEAN, root \in inputs.roots, t \in inputs.templates :
          LET d == findUnlockedSubagent(fs)
              r == [proc[p] EXCEPT !.subagentRoot = root, !.workspaceTemplate = t]
          IN  proc' = [proc EXCEPT ![p] =
                         IF d = Null THEN Returned(r, 1, "NoAvailableSlot")
                         ELSE [r EXCEPT !.subagentDir = d, !.dryRun = dryRun, !.pc = "config"]]
    /\ UNCHANGED <<fs, host, clock, worker, held, opres, inputs>>

Claim(p) ==
    /\ proc[p].pc = "claim"
    /\ \E dryRun \in BOOLEAN, root \in inputs.roots, t \in inputs.templates :
          LET d == findUnlockedSubagent(fs)
              r == [proc[p] EXCEPT !.subagentRoot = root, !.workspaceTemplate = t]
          IN  proc' = [proc EXCEPT ![p] =
                         IF d = Null THEN Returned(r, 1, "NoAvailableSlot")
                         ELSE [r EXCEPT !.subagentDir = d, !.dryRun = dryRun,
                                        !.pc = IF dryRun THEN "attach" ELSE "config"]]
    /\ UNCHANGED <<fs, host, clock, worker, held, opres, inputs>>

TemplateError(t) ==
    CASE t = "notfound"  -> "TemplateNotFound"
      [] t = "directory" -> "TemplateIsDirectory"
      [] t = "invalid"   -> "InvalidTemplate"
      [] OTHER           -> "ConfigWriteFailed"

\* mutant: a configuration written only where the slot has none yet
CopyAgentConfig_IfMissing(p) ==
    /\ proc[p].pc = "config"
    /\ LET t == proc[p].workspaceTemplate IN
          IF t \in {"default", "custom"}
            THEN /\ fs' = [fs EXCEPT !.workspace[proc[p].subagentDir] =
                                        IF @ = "absent" THEN t ELSE @]
                 /\ proc' = [proc EXCEPT ![p].pc = "purge"]
            ELSE /\ proc' = [proc EXCEPT ![p] = Returned(@, 1, TemplateError(t))]
                 /\ UNCHANGED fs
    /\ UNCHANGED <<host, clock, worker, held, opres, inputs>>

\* copyAgentConfig: validate and read the template, materialize it, write it
CopyAgentConfig(p) ==
    /\ proc[p].pc = "config"
    /\ LET t == proc[p].workspaceTemplate IN
          IF t \in {"default", "custom"}
            THEN /\ fs' = [fs EXCEPT !.workspace[proc[p].subagentDir] = t]
                 /\ proc' = [proc EXCEPT ![p].pc = "purge"]
            ELSE /\ proc' = [proc EXCEPT ![p] = Returned(@, 1, TemplateError(t))]
                 /\ UNCHANGED fs
    /\ UNCHANGED <<host, clock, worker, held, opres, inputs>>

\* mutant: a purge that empties the messages directory only
PurgeStale_MessagesOnly(p) ==
    /\ proc[p].pc = "purge"
    /\ \E ok \in inputs.io :
          IF ok
            THEN /\ fs' = [fs EXCEPT !.messages[proc[p].subagentDir] = {}]
                 /\ proc' = [proc EXCEPT ![p].pc = "lock"]
            ELSE /\ proc' = [proc EXCEPT ![p] = Returned(@, 1, "LockFailed")]
                 /\ UNCHANGED fs
    /\ UNCHANGED <<host, clock, worker, held, opres, inputs>>

\* createSubagentLock, first part: remove every message file and every
\* *.chatmode.md file of the slot
PurgeStale(p) ==
    /\ proc[p].pc = "purge"
    /\ \E ok \in inputs.io :
          IF ok
            THEN /\ fs' = [fs EXCEPT !.messages[proc[p].subagentDir] = {},
                                     !.chatmode[proc[p].subagentDir] = {}]
                 /\ proc' = [proc EXCEPT ![p].pc = "lock"]
            ELSE /\ proc' = [proc EXCEPT ![p] = Returned(@, 1, "LockFailed")]
                 /\ UNCHANGED fs
    /\ UNCHANGED <<host, clock, worker, held, opres, inputs>>

\* createSubagentLock, last part: writeFile(lockFile, "")
WriteLock(p) ==
    /\ proc[p].pc = "lock"
    /\ \E ok \in inputs.io :
          IF ok
            THEN /\ fs' = [fs EXCEPT !.lock = @ \cup {proc[p].subagentDir}]
                 /\ held' = [held EXCEPT ![proc[p].subagentDir] = @ \cup {p}]
                 /\ proc' = [proc EXCEPT ![p].pc =
                               IF proc[p].promptFile = "file" THEN "prompt" ELSE "attach"]
            ELSE /\ proc' = [proc EXCEPT ![p] = Returned(@, 1, "LockFailed")]
                 /\ UNCHANGED <<fs, held>>
    /\ UNCHANGED <<host, clock, worker, opres, inputs>>

\* mutant: a prompt copy that removes the lock marker again when it fails
CopyPrompt_Rollback(p) ==
    /\ proc[p].pc = "prompt"
    /\ \E ok \in inputs.io :
          IF ok
            THEN /\ fs' = [fs EXCEPT !.chatmode[proc[p].subagentDir] = @ \cup {proc[p].chatId}]
                 /\ proc' = [proc EXCEPT ![p].pc = "attach"]
            ELSE /\ fs' = [fs EXCEPT !.lock = removeIfExists(@, proc[p].subagentDir)]
                 /\ proc' = [proc EXCEPT ![p] = Returned(@, 1, "PromptCopyFailed")]
    /\ UNCHANGED <<host, clock, worker, held, opres, inputs>>

\* copyFile(promptFile, `${chatId}.chatmode.md`)
CopyPrompt(p) ==
    /\ proc[p].pc = "prompt"
    /\ \E ok \in inputs.io :
          IF ok
            THEN /\ fs' = [fs EXCEPT !.chatmode[proc[p].subagentDir] = @ \cup {proc[p].chatId}]
                 /\ proc' = [proc EXCEPT ![p].pc = "attach"]
            ELSE /\ proc' = [proc EXCEPT ![p] = Returned(@, 1, "PromptCopyFailed")]
                 /\ UNCHANGED fs
    /\ UNCHANGED <<host, clock, worker, held, opres, inputs>>

\* resolveAttachments, the timestamp, the response paths, the request text,
\* the {success: true} line, the dry-run return
ResolveAttachments(p) ==
    /\ proc[p].pc = "attach"
    /\ \/ /\ FALSE \in inputs.io
          /\ proc' = [proc EXCEPT ![p] = Thrown(@, "AttachmentNotFound")]
          /\ UNCHANGED clock
       \/ \E ts \in clock..MaxTs :
             /\ clock' = ts
             /\ LET responseFileTmp   == MessagePath(proc[p].subagentDir, ts, "tmp")
                    responseFileFinal == MessagePath(proc[p].subagentDir, ts, "res")
                    r == [proc[p] EXCEPT !.timestamp = ts,
                            !.responseFileTmp = responseFileTmp,
                            !.responseFileFinal = responseFileFinal,
                            !.request = createRequestPrompt(responseFileTmp, responseFileFinal,
                                                            proc[p].subagentDir),
                            !.out = IF proc[p].session THEN @
                                    ELSE Append(@, OutSuccess(proc[p].subagentDir,
                                                              responseFileFinal.ts))]
                IN  proc' = [proc EXCEPT ![p] =
                               IF r.dryRun THEN Returned(r, 0, "none")
                               ELSE [r EXCEPT !.pc = "request"]]
    /\ UNCHANGED <<fs, host, worker, held, opres, inputs>>

\* mutant: a failed request write that rolls the claim back
WriteRequest_Rollback(p) ==
    /\ proc[p].pc = "request"
    /\ \E ok \in inputs.io :
          IF ok
            THEN /\ fs' = [fs EXCEPT !.messages[proc[p].subagentDir] =
                                        @ \cup {File(proc[p].timestamp, "req")}]
                 /\ proc' = [proc EXCEPT ![p].pc = "probe"]
            ELSE /\ fs' = [fs EXCEPT !.lock = removeIfExists(@, proc[p].subagentDir)]
                 /\ proc' = [proc EXCEPT ![p] = Returned(@, 1, "LaunchFailed")]
    /\ UNCHANGED <<host, clock, worker, held, opres, inputs>>

\* launchVsCodeWithChat, first part: mkdir messages, write `${timestamp}_req.md`
WriteRequest(p) ==
    /\ proc[p].pc = "request"
    /\ \E ok \in inputs.io :
          IF ok
            THEN /\ fs' = [fs EXCEPT !.messages[proc[p].subagentDir] =
                                        @ \cup {File(proc[p].timestamp, "req")}]
                 /\ proc' = [proc EXCEPT ![p].pc = "probe"]
            ELSE /\ proc' = [proc EXCEPT ![p] = Returned(@, 1, "LaunchFailed")]
                 /\ UNCHANGED fs
    /\ UNCHANGED <<host, clock, worker, held, opres, inputs>>

\* ensureWorkspaceFocused: checkWorkspaceOpened; if not open, remove .alive and
\* copy wakeup.chatmode.md into the slot
EnsureFocused(p) ==
    /\ proc[p].pc = "probe"
    /\ \E alreadyOpen \in {pathExists(host.open, proc[p].subagentDir), FALSE} :
          IF alreadyOpen
            THEN /\ proc' = [proc EXCEPT ![p].pc = "issue", ![p].workspaceReady = TRUE]
                 /\ UNCHANGED fs
            ELSE /\ fs' = [fs EXCEPT !.alive = removeIfExists(@, proc[p].subagentDir),
                                     !.chatmode[proc[p].subagentDir] = @ \cup {"wakeup"}]
                 /\ proc' = [proc EXCEPT ![p].pc = "launch"]
    /\ UNCHANGED <<host, clock, worker, held, opres, inputs>>

\* ensureWorkspaceFocused: spawn the host on the workspace, then the wakeup chat
LaunchHost(p) ==
    /\ proc[p].pc = "launch"
    /\ host' = [open |-> host.open \cup {proc[p].subagentDir},
                wake |-> host.wake \cup {proc[p].subagentDir}]
    /\ proc' = [proc EXCEPT ![p].pc = "ready", ![p].polls = 0]
    /\ UNCHANGED <<fs, clock, worker, held, opres, inputs>>

\* Date.now() - start > timeout * 1000, counted in polls of pollInterval
ReadinessExpired(polls) == polls >= ReadyPolls

\* mutant: a readiness timeout that aborts the dispatch
TimedOut_Abort(r) == Returned([r EXCEPT !.workspaceReady = FALSE], 1, "HostReadinessTimeout")

\* the timeout branch: warning, return false; launchVsCodeWithChat warns and goes on
TimedOut(r) == [r EXCEPT !.pc = "issue", !.workspaceReady = FALSE]

\* ensureWorkspaceFocused: while (!pathExists(aliveFile)) { timeout? ; sleep }
PollAlive(p) ==
    /\ proc[p].pc = "ready"
    /\ proc' = [proc EXCEPT ![p] =
                  IF pathExists(fs.alive, @.subagentDir)
                    THEN [@ EXCEPT !.pc = "issue", !.workspaceReady = TRUE]
                  ELSE IF ReadinessExpired(@.polls)
                    THEN TimedOut(@)
                  ELSE [@ EXCEPT !.polls = @ + 1]]
    /\ UNCHANGED <<fs, host, clock, worker, held, opres, inputs>>

\* mutant: a dispatch that waits for the response whatever `wait` says
AfterLaunch_AlwaysWait(r, wait) == [r EXCEPT !.pc = "await", !.wait = wait]

\* dispatchAgent after a successful launch: without --wait the
\* {status: "dispatched"} line and return 0, else on to waitForResponseOutput
AfterLaunch(r, wait) ==
    IF wait THEN [r EXCEPT !.pc = "await", !.wait = TRUE]
    ELSE Returned([r EXCEPT !.out = IF r.session THEN @
                                    ELSE Append(@, OutDispatched(r.subagentDir,
                                                                 r.responseFileFinal.ts))],
                  0, "none")

\* launchVsCodeWithChat, last part: spawn the chat with the request
IssueInstruction(p) ==
    /\ proc[p].pc = "issue"
    /\ worker' = [worker EXCEPT ![p] = "instructed"]
    /\ \E wait \in BOOLEAN : proc' = [proc EXCEPT ![p] = AfterLaunch(@, wait)]
    /\ UNCHANGED <<fs, host, clock, held, opres, inputs>>

\* mutant: a wait that also ends on the temporary response file
ResponsePresent_OrTmp(f, d, ts) ==
    pathExists(f.messages[d], File(ts, "res")) \/ pathExists(f.messages[d], File(ts, "tmp"))

\* waitForResponseOutput: while (!pathExists(responseFileFinal)) sleep
ResponsePresent(f, d, ts) == pathExists(f.messages[d], File(ts, "res"))

PollResponse(p) ==
    /\ proc[p].pc = "await"
    /\ proc' = [proc EXCEPT ![p] =
                  IF ResponsePresent(fs, @.responseFileFinal.dir, @.responseFileFinal.ts)
                    THEN [@ EXCEPT !.pc = "read", !.attempts = 0]
                    ELSE @]
    /\ UNCHANGED <<fs, host, clock, worker, held, opres, inputs>>

\* mutant: a read loop that retries whatever the error is
FailedRead_RetryAny(r, code) ==
    IF r.attempts + 1 >= maxAttempts
      THEN Returned([r EXCEPT !.attempts = @ + 1, !.readError = code], 1, "ResponseUnreadable")
      ELSE [r EXCEPT !.attempts = @ + 1, !.readError = code]

\* waitForResponseOutput, the catch of readFile: attempts += 1; give up unless
\* the error is EBUSY and attempts are left
FailedRead(r, code) ==
    IF code # "EBUSY" \/ r.attempts + 1 >= maxAttempts
      THEN Returned([r EXCEPT !.attempts = @ + 1, !.readError = code], 1, "ResponseUnreadable")
      ELSE [r EXCEPT !.attempts = @ + 1, !.readError = code]

\* waitForResponseOutput: readFile with up to maxAttempts tries on EBUSY
ReadResponse(p) ==
    /\ proc[p].pc = "read"
    /\ \E outcome \in IF ResponsePresent(fs, proc[p].responseFileFinal.dir,
                                           proc[p].responseFileFinal.ts)
                        THEN inputs.reads ELSE {"ENOENT"} :
          proc' = [proc EXCEPT ![p] =
                     IF outcome = "ok"
                       THEN [@ EXCEPT !.pc = "release",
                                      !.out = Append(@, OutContent(proc[p].responseFileFinal.dir,
                                                                   proc[p].responseFileFinal.ts))]
                     ELSE FailedRead(@, outcome)]
    /\ UNCHANGED <<fs, host, clock, worker, held, opres, inputs>>

\* mutant: a synchronous dispatch that returns without removing its marker
Release_KeepsLock(p) ==
    /\ proc[p].pc = "release"
    /\ proc' = [proc EXCEPT ![p] = Returned(@, 0, "none")]
    /\ UNCHANGED <<fs, held, host, clock, worker, opres, inputs>>

\* removeSubagentLock(subagentDir); return 0
Release(p) ==
    /\ proc[p].pc = "release"
    /\ fs' = [fs EXCEPT !.lock = removeIfExists(@, proc[p].subagentDir)]
    /\ held' = [held EXCEPT ![proc[p].subagentDir] = {}]
    /\ proc' = [proc EXCEPT ![p] = Returned(@, 0, "none")]
    /\ UNCHANGED <<host, clock, worker, opres, inputs>>

\* ------------------------------------------- the host and the external worker
\* the host answers the wakeup chat: "create a file named .alive"
HostWakeup(n) ==
    /\ n \in host.wake
    /\ host' = [host EXCEPT !.wake = @ \ {n}]
    /\ fs' = [fs EXCEPT !.alive = @ \cup {n}]
    /\ UNCHANGED <<clock, proc, worker, held, opres, inputs>>

\* The worker acts on the text of its request: the paths and the slot name
\* the request names.
\* request step 1: write the complete response to responseFileTmp
WorkerWrite(p) ==
    /\ worker[p] = "instructed"
    /\ LET tmp == proc[p].request.tmp
       IN  fs' = [fs EXCEPT !.messages[tmp.dir] = @ \cup {File(tmp.ts, tmp.kind)}]
    /\ worker' = [worker EXCEPT ![p] = "written"]
    /\ UNCHANGED <<host, clock, proc, held, opres, inputs>>

\* request step 2: Move-Item responseFileTmp -> responseFileFinal
WorkerRename(p) ==
    /\ worker[p] = "written"
    /\ LET tmp   == proc[p].request.tmp
           final == proc[p].request.final
       IN  fs' = [fs EXCEPT !.messages[tmp.dir] =
                    IF File(tmp.ts, tmp.kind) \in @
                      THEN (@ \ {File(tmp.ts, tmp.kind)}) \cup {File(final.ts, final.kind)}
                      ELSE @]
    /\ worker' = [worker EXCEPT ![p] = "renamed"]
    /\ UNCHANGED <<host, clock, proc, held, opres, inputs>>

\* mutant: a self-unlock that names the root the dispatch claimed in
WorkerUnlock_ClaimedRoot(p) ==
    /\ worker[p] = "renamed"
    /\ fs' = unlockSubagents(fs, proc[p].request.unlock, FALSE, FALSE).fs
    /\ held' = [held EXCEPT ![proc[p].request.unlock] = {}]
    /\ worker' = [worker EXCEPT ![p] = "done"]
    /\ UNCHANGED <<host, clock, proc, opres, inputs>>

\* request step 2, second command: subagent <cmd> unlock --subagent <name>,
\* without --target-root: the CLI unlocks under the default root
WorkerUnlock(p) ==
    /\ worker[p] = "renamed"
    /\ IF proc[p].subagentRoot = "default"
         THEN /\ fs' = unlockSubagents(fs, proc[p].request.unlock, FALSE, FALSE).fs
              /\ held' = [held EXCEPT ![proc[p].request.unlock] = {}]
         ELSE /\ fs' = [fs EXCEPT !.defaultRoot =
                          unlockSubagents(@, proc[p].request.unlock, FALSE, FALSE).fs]
              /\ UNCHANGED held
    /\ worker' = [worker EXCEPT ![p] = "done"]
    /\ UNCHANGED <<host, clock, proc, opres, inputs>>

Next ==
    \/ \E p \in Procs :
          \/ Start(p) \/ Claim(p) \/ CopyAgentConfig(p) \/ PurgeStale(p) \/ WriteLock(p)
          \/ CopyPrompt(p) \/ ResolveAttachments(p) \/ WriteRequest(p) \/ EnsureFocused(p)
          \/ LaunchHost(p) \/ PollAlive(p) \/ IssueInstruction(p) \/ PollResponse(p)
          \/ ReadResponse(p) \/ Release(p)
          \/ WorkerWrite(p) \/ WorkerRename(p) \/ WorkerUnlock(p)
    \/ \E n \in Ordinals : HostWakeup(n)

\* two concurrent dispatches over one pool
Spec == InitRace /\ [][Next]_vars

DispatchStep(p) ==
    \/ Start(p) \/ Claim(p) \/ CopyAgentConfig(p) \/ PurgeStale(p) \/ WriteLock(p)
    \/ CopyPrompt(p) \/ ResolveAttachments(p) \/ WriteRequest(p) \/ EnsureFocused(p)
    \/ LaunchHost(p) \/ PollAlive(p) \/ IssueInstruction(p) \/ PollResponse(p)
    \/ ReadResponse(p) \/ Release(p)

WorkerStep(p) == WorkerWrite(p) \/ WorkerRename(p) \/ WorkerUnlock(p)

\* Every invocation keeps running (its polls are timer-driven), the host answers
\* the wakeup chat, and every worker carries out its request.
FairSpec ==
    /\ Spec
    /\ \A p \in Procs : WF_vars(DispatchStep(p)) /\ WF_vars(WorkerStep(p))
    /\ \A n \in Ordinals : WF_vars(HostWakeup(n))

\* one dispatch, its worker and the host, with every input and I/O outcome
SpecSolo == InitSolo /\ [][Next]_vars

\* one dispatch by either entry point, against either root, over a fresh or a
\* used pool
SpecReuse == InitReuse /\ [][Next]_vars

\* ------------------------------------------- provision, one await at a time
\* Two provision invocations over one root, with other processes creating and
\* removing lock markers in between.  `proc` holds the locals of
\* provisionSubagents; `opres.pre` keeps the pool as it was before the calls.
IdleProvision ==
    [ pc |-> "idle", subagents |-> 0, force |-> FALSE, dryRun |-> FALSE,
      highestNumber |-> 0, lockedSubagents |-> {}, existingSubagents |-> <<>>, i |-> 1,
      created |-> <<>>, skippedExisting |-> <<>>, subagentsProvisioned |-> 0,
      nextIndex |-> 0, skippedLocked |-> <<>> ]

InitProvision ==
    /\ \E r \in BOOLEAN, n \in 0..PoolSize, l \in SUBSET (1..PoolSize) :
          /\ l \subseteq 1..n
          /\ ~r => n = 0
          /\ fs = StartPool(r, n, l)
    /\ host = [open |-> {}, wake |-> {}]
    /\ clock = 1
    /\ proc = [p \in Procs |-> IdleProvision]
    /\ worker = [p \in Procs |-> "none"]
    /\ held = [n \in Ordinals |-> {}]
    /\ opres = [NoOp EXCEPT !.pre = fs]
    /\ inputs = RaceInputs

\* the accumulator of the passes, over the filesystem as it is now
ProvisionAcc(p) ==
    [ fs |-> fs,
      created |-> proc[p].created,
      skippedExisting |-> proc[p].skippedExisting,
      lockedSubagents |-> proc[p].lockedSubagents,
      provisioned |-> proc[p].subagentsProvisioned ]

ProvisionLocals(r, acc) ==
    [r EXCEPT !.created = acc.created, !.skippedExisting = acc.skippedExisting,
              !.lockedSubagents = acc.lockedSubagents,
              !.subagentsProvisioned = acc.provisioned]

\* provisionSubagents, the arguments and ensureDir(targetPath)
ProvisionStart(p) ==
    /\ proc[p].pc = "idle"
    /\ p \in inputs.procs
    /\ p = "d2" => proc["d1"].pc # "idle"      \* the two invocations are interchangeable
    /\ \E subagents \in 1..PoolSize, force \in BOOLEAN, dryRun \in BOOLEAN :
          /\ p = "d2" => ~force /\ ~dryRun         \* the second call is a plain one
          /\ proc' = [proc EXCEPT ![p] = [@ EXCEPT !.pc = "enumerate", !.subagents = subagents,
                                                   !.force = force, !.dryRun = dryRun]]
          /\ fs' = IF dryRun THEN fs ELSE [fs EXCEPT !.rootExists = TRUE]
    /\ UNCHANGED <<host, clock, worker, held, opres, inputs>>

\* the enumeration pass: highestNumber, lockedSubagents, existingSubagents sorted
ProvisionEnumerate(p) ==
    /\ proc[p].pc = "enumerate"
    /\ LET enumerated == IF fs.rootExists THEN Candidates(fs) ELSE {}
           sorted == SortByNumber(enumerated)
       IN  proc' = [proc EXCEPT ![p] =
                      [@ EXCEPT !.pc = "existing", !.i = 1,
                                !.highestNumber = HighestNumber(enumerated),
                                !.lockedSubagents =
                                    { e.ord : e \in { x \in enumerated : pathExists(fs.lock, x.ord) } },
                                !.existingSubagents = [k \in 1..Len(sorted) |-> sorted[k].ord]]]
    /\ UNCHANGED <<fs, host, clock, worker, held, opres, inputs>>

\* one iteration of the pass over the existing slots, or its end
ProvisionExisting(p) ==
    /\ proc[p].pc = "existing"
    /\ IF proc[p].i > Len(proc[p].existingSubagents)
          \/ proc[p].subagentsProvisioned >= proc[p].subagents
         THEN /\ proc' = [proc EXCEPT ![p].pc = "create",
                                      ![p].nextIndex = proc[p].highestNumber]
              /\ UNCHANGED fs
         ELSE LET acc == ExistingStep(ProvisionAcc(p), proc[p].existingSubagents[proc[p].i],
                                      proc[p].force, proc[p].dryRun)
              IN  /\ fs' = acc.fs
                  /\ proc' = [proc EXCEPT ![p] = [ProvisionLocals(@, acc) EXCEPT !.i = @ + 1]]
    /\ UNCHANGED <<host, clock, worker, held, opres, inputs>>

\* one iteration of the creating pass, or the return with skippedLocked sorted
ProvisionCreate(p) ==
    /\ proc[p].pc = "create"
    /\ IF proc[p].subagentsProvisioned >= proc[p].subagents
         THEN /\ proc' = [proc EXCEPT ![p].pc = "done",
                                      ![p].skippedLocked = SortPaths(proc[p].lockedSubagents)]
              /\ UNCHANGED fs
         ELSE /\ proc[p].nextIndex + 1 <= MaxSlot
              /\ LET acc == CreateStep(ProvisionAcc(p), proc[p].nextIndex + 1, proc[p].dryRun)
                 IN  /\ fs' = acc.fs
                     /\ proc' = [proc EXCEPT ![p] =
                                   [ProvisionLocals(@, acc) EXCEPT !.nextIndex = @ + 1]]
    /\ UNCHANGED <<host, clock, worker, held, opres, inputs>>

\* another process (a dispatch) writes the lock marker of a slot that was
\* there before the calls
MarkerCreated(n) ==
    /\ n \in opres.pre.slots /\ n \notin fs.lock
    /\ fs' = [fs EXCEPT !.lock = @ \cup {n}]
    /\ UNCHANGED <<host, clock, proc, worker, held, opres, inputs>>

\* another process (a release, a self-unlock, an operator) removes it
MarkerRemoved(n) ==
    /\ n \in opres.pre.slots /\ n \in fs.lock
    /\ fs' = [fs EXCEPT !.lock = removeIfExists(@, n)]
    /\ UNCHANGED <<host, clock, proc, worker, held, opres, inputs>>

NextProvision ==
    \/ \E p \in Procs :
          \/ ProvisionStart(p) \/ ProvisionEnumerate(p)
          \/ ProvisionExisting(p) \/ ProvisionCreate(p)
    \/ \E n \in Ordinals : MarkerCreated(n) \/ MarkerRemoved(n)

SpecProvision == InitProvision /\ [][NextProvision]_vars

\* ================================================================= claims

\* C1: findUnlockedSubagent returns the existing slot with the smallest ordinal
\* whose lock marker is absent, and null exactly when the root does not exist,
\* holds no slot, or every slot is locked.
C1_FirstFreeSlot ==
    opres.op = "find" =>
        LET free == opres.pre.slots \ opres.pre.lock
        IN  /\ (opres.found = Null) <=>
                  \/ ~opres.pre.rootExists
                  \/ opres.pre.slots = {}
                  \/ opres.pre.slots \subseteq opres.pre.lock
            /\ opres.found # Null =>
                  /\ opres.found \in free
                  /\ \A n \in free : opres.found <= n

\* slot 1 locked, 2 and 3 free, other entries present: the scan returned slot 2
C1_Witness ==
    /\ opres.op = "find"
    /\ opres.pre.slots = {1, 2, 3}
    /\ opres.pre.lock = {1}
    /\ opres.pre.junk # {}
    /\ opres.found = 2

\* C2: under every interleaving of two concurrent dispatches, no state is
\* reachable in which both have written the lock marker of the same slot and
\* neither marker has been released.
C2_ExclusiveClaim ==
    \A n \in Ordinals : \A p \in held[n], q \in held[n] : p = q

\* ---- helpers of the dispatch claims
Launched(p) == worker[p] # "none"          \* the real instruction was issued

Has(p, line) == \E i \in 1..Len(proc[p].out) : proc[p].out[i] = line

Stepped(p) == proc'[p] # proc[p]

PreparationErrors ==
    { "TemplateNotFound", "TemplateIsDirectory", "InvalidTemplate", "ConfigWriteFailed",
      "LockFailed", "PromptCopyFailed" }

\* C3: an asynchronous dispatch whose launch succeeded returns success without
\* entering the response wait, reports the claimed slot and the final response
\* path, and its slot's lock marker is set when it returns.
C3_AsyncReturnsLocked ==
    \A p \in Procs :
        /\ proc[p].pc \in {"await", "read", "release"} => proc[p].wait
        /\ (proc[p].pc = "done" /\ Launched(p) /\ ~proc[p].wait) =>
              /\ proc[p].exitCode = 0
              /\ proc[p].out = << OutSuccess(proc[p].subagentDir, proc[p].timestamp),
                                  OutDispatched(proc[p].subagentDir, proc[p].timestamp) >>
              /\ proc[p].attempts = 0
              /\ worker[p] = "instructed" => proc[p].subagentDir \in fs.lock

\* an asynchronous dispatch has just returned: dispatched, slot locked
C3_Witness ==
    \E p \in Procs :
        /\ proc[p].pc = "done" /\ ~proc[p].wait /\ worker[p] = "instructed"
        /\ proc[p].exitCode = 0
        /\ proc[p].subagentDir \in fs.lock

\* C4: a synchronous dispatch that has issued the real instruction leaves the
\* response wait only once the final response artifact exists, and then only
\* to read it: it never returns from the wait, and the wait has no timeout.
C4_WaitsForResponse ==
    [][ \A p \in Procs :
          (proc[p].pc = "await" /\ Stepped(p)) =>
              /\ proc'[p].pc = "read"
              /\ File(proc[p].timestamp, "res") \in fs.messages[proc[p].subagentDir] ]_vars

\* a synchronous dispatch is waiting while only the temporary response exists
C4_Witness ==
    \E p \in Procs :
        /\ proc[p].pc = "await" /\ proc[p].wait
        /\ File(proc[p].timestamp, "tmp") \in fs.messages[proc[p].subagentDir]
        /\ File(proc[p].timestamp, "res") \notin fs.messages[proc[p].subagentDir]

C6_SyncEventuallyReturns ==
    \A p \in Procs :
        (proc[p].pc = "await" /\ worker[p] = "instructed") ~>
            (proc[p].pc = "done" /\ Has(p, OutContent(proc[p].subagentDir, proc[p].timestamp)))

\* C7: when every existing slot is locked, or no slot exists, the claim step
\* ends the dispatch at once with the no-available-slot error and leaves the
\* filesystem (slots, lock markers, configurations, messages) unchanged.
C7_NoSlotFailsAtOnce ==
    [][ \A p \in Procs :
          (proc[p].pc = "claim" /\ Stepped(p) /\ fs.slots \subseteq fs.lock) =>
              /\ proc'[p].pc = "done"
              /\ proc'[p].exitCode = 1
              /\ proc'[p].error = "NoAvailableSlot"
              /\ proc'[p].subagentDir = Null
              /\ fs' = fs /\ host' = host /\ worker' = worker ]_vars

\* a dispatch failed for want of a slot on a pool of two locked slots
C7_Witness ==
    \E p \in Procs :
        /\ proc[p].pc = "done" /\ proc[p].error = "NoAvailableSlot"
        /\ fs.slots = {1, 2} /\ fs.lock = {1, 2}

\* C8 as stated: whenever Preparing fails, the claimed slot is left locked.
C8_PrepareFailureLocks ==
    \A p \in Procs :
        (proc[p].pc = "done" /\ proc[p].error \in PreparationErrors) =>
            proc[p].subagentDir \in fs.lock

\* C8 amended: whenever Preparing fails the dispatch is aborted (exit code 1,
\* no request written, nothing launched); the claimed slot is left locked
\* exactly when the failure came after the marker was created, that is while
\* copying the prompt artifact, and is left unlocked when materializing the
\* configuration or creating the marker failed.
C8_PrepareFailure ==
    \A p \in Procs :
        (proc[p].pc = "done" /\ proc[p].error \in PreparationErrors) =>
            /\ proc[p].exitCode = 1
            /\ ~Launched(p)
            /\ proc[p].out = <<>>
            /\ File(proc[p].timestamp, "req") \notin fs.messages[proc[p].subagentDir]
            /\ proc[p].subagentDir \notin host.open
            /\ (proc[p].subagentDir \in fs.lock) <=> (proc[p].error = "PromptCopyFailed")

\* the prompt copy failed on slot 2 (slot 1 was taken): slot 2 is left locked
C8_Witness ==
    \E p \in Procs :
        /\ proc[p].pc = "done" /\ proc[p].error = "PromptCopyFailed"
        /\ proc[p].subagentDir = 2
        /\ fs.lock = {1, 2}

\* C9: the host-readiness wait ends within its bounded number of polls; when
\* it times out the dispatch still issues the real instruction and finishes
\* as dispatched: the timeout yields no failure result and the instruction is
\* never skipped.
C9_TimeoutStillDispatches ==
    \A p \in Procs :
        /\ proc[p].pc = "ready" => proc[p].polls <= ReadyPolls
        /\ ~proc[p].workspaceReady =>
              /\ proc[p].pc \in {"issue", "await", "read", "release", "done"}
              /\ proc[p].pc # "issue" => Launched(p)
              /\ proc[p].error # "HostReadinessTimeout"
              /\ (proc[p].pc = "done" /\ ~proc[p].wait) =>
                    /\ proc[p].exitCode = 0
                    /\ Has(p, OutDispatched(proc[p].subagentDir, proc[p].timestamp))
              /\ (proc[p].pc = "done" /\ proc[p].exitCode # 0) =>
                    proc[p].error = "ResponseUnreadable"

\* the marker never reappeared, the wait timed out, the dispatch was dispatched
C9_Witness ==
    \E p \in Procs :
        /\ ~proc[p].workspaceReady
        /\ proc[p].subagentDir \notin fs.alive
        /\ proc[p].polls = ReadyPolls
        /\ proc[p].pc = "done" /\ proc[p].exitCode = 0
        /\ Has(p, OutDispatched(proc[p].subagentDir, proc[p].timestamp))

\* C10: provisioning N slots into an empty or not yet existing root creates
\* exactly the slots 1..N, reports them as created in that order, and reports
\* nothing as skippedExisting or skippedLocked.
C10_ProvisionEmptyPool ==
    (opres.op = "provision" /\ opres.pre.slots = {}) =>
        /\ opres.created = [i \in 1..opres.subagents |-> i]
        /\ opres.skippedExisting = <<>>
        /\ opres.skippedLocked = <<>>
        /\ ~opres.dryRun =>
              /\ fs.rootExists
              /\ fs.slots = 1..opres.subagents
              /\ \A n \in fs.slots : fs.workspace[n] = "raw" /\ n \notin fs.lock

\* three slots provisioned into a root that did not exist
C10_Witness ==
    /\ opres.op = "provision"
    /\ ~opres.pre.rootExists
    /\ ~opres.dryRun
    /\ opres.subagents = 3
    /\ fs.slots = {1, 2, 3}
    /\ opres.created = <<1, 2, 3>>

\* ---- helpers of the pool claims
SeqRange(q) == { q[i] : i \in 1..Len(q) }

MaxOrdinal(S) == IF S = {} THEN 0 ELSE CHOOSE m \in S : \A n \in S : n <= m

RECURSIVE Ascending(_)
Ascending(S) ==
    IF S = {} THEN <<>>
    ELSE LET m == CHOOSE x \in S : \A n \in S : x <= n
         IN  <<m>> \o Ascending(S \ {m})

Provisioned == opres.op = "provision"

\* the pool the operation was applied to held only locked slots 1..K, K >= 1
OnlyLockedPrefix ==
    /\ opres.pre.slots # {}
    /\ opres.pre.slots = 1..Cardinality(opres.pre.slots)
    /\ opres.pre.lock = opres.pre.slots

\* C11: provisioning M slots with force=false into a pool that holds only the
\* locked slots 1..K creates exactly K+1..K+M, reports exactly 1..K as
\* skippedLocked, and leaves the markers and configurations of 1..K unchanged.
C11_LockedPoolGrows ==
    (Provisioned /\ ~opres.force /\ OnlyLockedPrefix) =>
        LET K == Cardinality(opres.pre.slots)
        IN  /\ opres.created = [i \in 1..opres.subagents |-> K + i]
            /\ opres.skippedExisting = <<>>
            /\ Len(opres.skippedLocked) = K
            /\ SeqRange(opres.skippedLocked) = 1..K
            /\ fs.lock = opres.pre.lock
            /\ \A n \in 1..K : fs.workspace[n] = opres.pre.workspace[n]
            /\ ~opres.dryRun => fs.slots = 1..(K + opres.subagents)

\* two slots added after one locked slot whose configuration a dispatch wrote
C11_Witness ==
    /\ Provisioned /\ ~opres.force /\ ~opres.dryRun
    /\ opres.pre.slots = {1} /\ opres.pre.lock = {1}
    /\ opres.pre.workspace[1] = "default"
    /\ opres.subagents = 2
    /\ opres.created = <<2, 3>>
    /\ opres.skippedLocked = <<1>>
    /\ fs.lock = {1}

\* C12: provisioning K slots with force=true into a pool of K locked slots
\* removes all K markers, rewrites all K configurations in place, reports all
\* K as created and creates no slot above K.
C12_ForceRewritesLockedPool ==
    (Provisioned /\ opres.force /\ OnlyLockedPrefix
       /\ opres.subagents = Cardinality(opres.pre.slots)) =>
        LET K == Cardinality(opres.pre.slots)
        IN  /\ opres.created = [i \in 1..K |-> i]
            /\ opres.skippedExisting = <<>>
            /\ opres.skippedLocked = <<>>
            /\ fs.slots = 1..K
            /\ ~opres.dryRun =>
                  /\ fs.lock = {}
                  /\ \A n \in 1..K : fs.workspace[n] = "raw"

\* three locked slots with materialized configurations, all rewritten in place
C12_Witness ==
    /\ Provisioned /\ opres.force /\ ~opres.dryRun
    /\ opres.pre.slots = {1, 2, 3} /\ opres.pre.lock = {1, 2, 3}
    /\ \A n \in 1..3 : opres.pre.workspace[n] = "default"
    /\ opres.subagents = 3
    /\ opres.created = <<1, 2, 3>>
    /\ fs.lock = {} /\ fs.slots = {1, 2, 3}

\* C13: after a provision with force=true that is not a dry run, no slot of the
\* pool carries a lock marker and every slot's configuration was overwritten,
\* whatever the requested count.
C13_ForceUnlocksAll ==
    (Provisioned /\ opres.force /\ ~opres.dryRun) =>
        /\ fs.lock = {}
        /\ \A n \in opres.pre.slots : fs.workspace[n] = "raw"

\* C14: a dry-run provision leaves the filesystem as it was and returns the
\* lists that the real call returns from the same pool, count and force flag.
C14_DryRunSameLists ==
    (Provisioned /\ opres.dryRun) =>
        LET real == provisionSubagents(opres.pre, opres.subagents, opres.force, FALSE)
        IN  /\ fs = opres.pre
            /\ opres.created = real.created
            /\ opres.skippedExisting = real.skippedExisting
            /\ opres.skippedLocked = real.skippedLocked

\* a dry run on a missing root that would create two slots: nothing was created
C14_Witness ==
    /\ Provisioned /\ opres.dryRun
    /\ ~opres.pre.rootExists
    /\ opres.subagents = 2
    /\ opres.created = <<1, 2>>
    /\ ~fs.rootExists /\ fs.slots = {}

\* the locked slots the ascending walk reaches before the count is accounted for
VisitedLocked ==
    { n \in opres.pre.slots \cap opres.pre.lock :
        Cardinality({ u \in opres.pre.slots \ opres.pre.lock : u < n }) < opres.subagents }

\* C15: with force=false, skippedLocked holds exactly the locked slots the
\* ascending walk visited before the requested count was accounted for; a
\* locked slot beyond the slot that satisfied the count is not reported.
C15_SkippedLockedVisitedOnly ==
    (Provisioned /\ ~opres.force) => SeqRange(opres.skippedLocked) = VisitedLocked

\* C16: with force=false, skippedExisting is the lowest-ordinal unlocked
\* existing slots in ascending order, up to the requested count, and new slots
\* are created only for the part of the count the unlocked slots do not cover.
C16_ReuseLowestUnlocked ==
    (Provisioned /\ ~opres.force) =>
        LET unlockedSlots == Ascending(opres.pre.slots \ opres.pre.lock)
            reused == IF Len(unlockedSlots) < opres.subagents
                        THEN Len(unlockedSlots) ELSE opres.subagents
        IN  /\ opres.skippedExisting = SubSeq(unlockedSlots, 1, reused)
            /\ Len(opres.created) = opres.subagents - reused
            /\ SeqRange(opres.created) \cap opres.pre.slots = {}
            /\ ~opres.dryRun =>
                  \A n \in SeqRange(opres.skippedExisting) :
                      fs.workspace[n] = IF opres.pre.workspace[n] = "absent"
                                          THEN "raw" ELSE opres.pre.workspace[n]

\* slots 1 (locked), 2 and 3 (unlocked), count 1: slot 2 is reused, none created
C16_Witness ==
    /\ Provisioned /\ ~opres.force
    /\ opres.pre.slots = {1, 2, 3} /\ opres.pre.lock = {1}
    /\ opres.subagents = 1
    /\ opres.skippedExisting = <<2>>
    /\ opres.created = <<>>

\* C17: the slots provision creates are numbered maxN+1, maxN+2, ... in order,
\* maxN being the highest ordinal enumerated: no gap below maxN is filled and
\* no existing ordinal is assigned again.
C17_NewOrdinalsAboveMax ==
    Provisioned =>
        LET maxN == MaxOrdinal(opres.pre.slots)
            fresh == SelectSeq(opres.created, LAMBDA n : n \notin opres.pre.slots)
        IN  /\ fresh = [i \in 1..Len(fresh) |-> maxN + i]
            /\ fs.slots = IF opres.dryRun THEN opres.pre.slots
                          ELSE opres.pre.slots \cup SeqRange(fresh)
            /\ ~opres.force => opres.created = fresh

\* the pool held only the locked slot 2: slot 3 was created, slot 1 was not
C17_Witness ==
    /\ Provisioned /\ ~opres.force /\ ~opres.dryRun
    /\ opres.pre.slots = {2} /\ opres.pre.lock = {2}
    /\ opres.created = <<3>>
    /\ fs.slots = {2, 3}

\* C18: unlock of all returns, in ascending ordinal order, exactly the slots
\* whose marker was present; afterwards no slot carries a marker; with dryRun
\* it returns the same list and removes no marker.
C18_UnlockAll ==
    (opres.op = "unlock" /\ opres.unlockAll /\ opres.error = "none") =>
        /\ opres.unlocked = Ascending(opres.pre.slots \cap opres.pre.lock)
        /\ fs = [opres.pre EXCEPT !.lock = IF opres.dryRun THEN @ ELSE {}]

\* slots 1 and 3 of three were locked and both markers were removed
C18_Witness ==
    /\ opres.op = "unlock" /\ opres.unlockAll /\ ~opres.dryRun
    /\ opres.pre.slots = {1, 2, 3} /\ opres.pre.lock = {1, 3}
    /\ opres.unlocked = <<1, 3>>
    /\ fs.lock = {}

\* C19: unlock of a named slot raises an error when the slot directory does
\* not exist, returns the empty list without error when the slot carries no
\* marker, and otherwise removes that slot's marker (unless dryRun) and returns
\* that one slot; the markers of all other slots stay as they were.
C19_UnlockNamed ==
    (opres.op = "unlock" /\ ~opres.unlockAll /\ opres.subagentName # Null) =>
        LET n == opres.subagentName
        IN  /\ n \notin opres.pre.slots =>
                  opres.error # "none" /\ opres.unlocked = <<>> /\ fs = opres.pre
            /\ (n \in opres.pre.slots /\ n \notin opres.pre.lock) =>
                  opres.error = "none" /\ opres.unlocked = <<>> /\ fs = opres.pre
            /\ (n \in opres.pre.slots /\ n \in opres.pre.lock) =>
                  /\ opres.error = "none" /\ opres.unlocked = <<n>>
                  /\ fs = [opres.pre EXCEPT !.lock = IF opres.dryRun THEN @ ELSE @ \ {n}]

\* slot 2 of three locked slots was unlocked by name; 1 and 3 stay locked
C19_Witness ==
    /\ opres.op = "unlock" /\ ~opres.unlockAll /\ ~opres.dryRun
    /\ opres.subagentName = 2
    /\ opres.pre.lock = {1, 2, 3}
    /\ opres.unlocked = <<2>>
    /\ fs.lock = {1, 3}

\* ---- helpers of the template claims
Canonical(p) == p.abs /\ \A i \in 1..Len(p.segs) : p.segs[i] \notin {".", ".."}

PlainSegs(segs) == SelectSeq(segs, LAMBDA g : g # ".")

Folder(abs, segs) == [path |-> Path(abs, segs), name |-> "none"]

\* C20: the materialized folder list is a new first entry {path: "."} followed
\* by the template's folders in their order, each relative path (a bare "."
\* included) resolved against templateDir and each absolute path unchanged;
\* ["./lib", "/abs/x", "."] with templateDir /t gives
\* [".", "/t/lib", "/abs/x", "/t"].
C20_MaterializedFolders ==
    (opres.op = "transform" /\ opres.workspace.hasFolders) =>
        LET in == opres.workspace.folders
            out == opres.transformed.folders
            dir == opres.templateDir
        IN  /\ opres.transformed.error = "none"
            /\ Len(out) = Len(in) + 1
            /\ out[1] = Folder(FALSE, <<".">>)
            /\ \A i \in 1..Len(in) :
                  /\ out[i + 1].name = in[i].name
                  /\ in[i].path.abs => out[i + 1] = in[i]
                  /\ ~in[i].path.abs =>
                        /\ Canonical(out[i + 1].path)
                        /\ (\A k \in 1..Len(in[i].path.segs) : in[i].path.segs[k] # "..") =>
                              out[i + 1].path.segs = dir.segs \o PlainSegs(in[i].path.segs)
            /\ (dir = Path(TRUE, <<"t">>)
                  /\ in = << Folder(FALSE, <<".", "lib">>), Folder(TRUE, <<"abs", "x">>),
                             Folder(FALSE, <<".">>) >>) =>
                  out = << Folder(FALSE, <<".">>), Folder(TRUE, <<"t", "lib">>),
                           Folder(TRUE, <<"abs", "x">>), Folder(TRUE, <<"t">>) >>

\* the template ["./lib", "/abs/x", "."] in /t was transformed
C20_Witness ==
    /\ opres.op = "transform"
    /\ opres.templateDir = Path(TRUE, <<"t">>)
    /\ opres.workspace.folders = << Folder(FALSE, <<".", "lib">>), Folder(TRUE, <<"abs", "x">>),
                                    Folder(FALSE, <<".">>) >>
    /\ Len(opres.transformed.folders) = 4
    /\ opres.transformed.folders[4] = Folder(TRUE, <<"t">>)

\* ---- helpers of the dispatch claims over a used pool
\* the dispatch is not a dry run and has completed prepareSubagentDirectory
PastPreparing(p) ==
    /\ ~proc[p].dryRun
    /\ \/ proc[p].pc \in {"attach", "request", "probe", "launch", "ready", "issue",
                          "await", "read", "release"}
       \/ proc[p].pc = "done" /\ proc[p].timestamp # 0
       \/ proc[p].pc = "done" /\ proc[p].error = "AttachmentNotFound"

\* C21: every dispatch that is not a dry run and got past Preparing has
\* overwritten the claimed slot's configuration with the materialization of
\* the template of that dispatch (custom if supplied, else the default),
\* whatever configuration the slot held before.
C21_ConfigurationFromCurrentTemplate ==
    \A p \in Procs :
        PastPreparing(p) =>
            /\ proc[p].workspaceTemplate \in {"default", "custom"}
            /\ fs.workspace[proc[p].subagentDir] = proc[p].workspaceTemplate

\* slot 1 held a configuration from a custom template, as slot 2 still does;
\* the dispatch used the default template and slot 1 now holds its materialization
C21_Witness ==
    \E p \in Procs :
        /\ PastPreparing(p) /\ proc[p].pc = "done" /\ proc[p].exitCode = 0
        /\ proc[p].subagentDir = 1
        /\ proc[p].workspaceTemplate = "default"
        /\ fs.workspace[1] = "default"
        /\ fs.workspace[2] = "custom"

C23_SelfUnlockOwnSlot ==
    \A p \in Procs :
        worker[p] = "done" =>
            /\ proc[p].subagentDir \notin fs.lock
            /\ fs.defaultRoot.lock = fs.defaultRoot.slots

\* ---- helper: the failures a dispatch can report
DispatchErrors ==
    PreparationErrors \cup {"PromptNotFound", "PromptIsDirectory", "NoAvailableSlot",
                            "AttachmentNotFound", "LaunchFailed", "ResponseUnreadable"}

\* C24: no error leaves dispatchAgent or dispatchAgentSession as an exception:
\* every invocation that ended has returned, with exit code 0 or 1; every
\* failure (bad prompt file, no free slot, preparation, missing attachment,
\* launch, unreadable response) returned exit code 1, and the result carries
\* an error exactly when the exit code is not 0.
C24_FailuresAreReturned ==
    \A p \in Procs :
        /\ proc[p].pc # "crashed"
        /\ proc[p].error \in DispatchErrors \cup {"none"}
        /\ proc[p].error # "none" => proc[p].pc = "done"
        /\ proc[p].pc = "done" =>
              /\ proc[p].exitCode \in {0, 1}
              /\ proc[p].exitCode # 0 <=> proc[p].error # "none"

\* a session dispatch whose attachment was missing: the exception was caught
\* and returned as exit code 1 with its message, nothing was printed
C24_Witness ==
    \E p \in Procs :
        /\ proc[p].session /\ proc[p].pc = "done"
        /\ proc[p].error = "AttachmentNotFound" /\ proc[p].exitCode = 1
        /\ proc[p].out = <<>>
        /\ proc[p].subagentDir \in fs.lock

\* C25: a claim scan that starts while slot S carries a marker that another
\* dispatch created and nobody has removed since (no release, self-unlock,
\* operator unlock or force provision) does not return S.
C25_ScanSkipsHeldSlot ==
    [][ \A p \in Procs : \A S \in Ordinals :
          (proc[p].pc = "claim" /\ Stepped(p) /\ held[S] \ {p} # {}) =>
              /\ S \in fs.lock
              /\ proc'[p].subagentDir # S ]_vars

\* d1 holds slot 1; the scan of d2 has just returned slot 2
C25_Witness ==
    /\ held[1] = {"d1"} /\ 1 \in fs.lock
    /\ proc["d2"].pc = "config" /\ proc["d2"].subagentDir = 2

\* C26: the release step of a dispatch removes no marker that a different
\* dispatch created: when it runs after the worker's self-unlock, the marker on
\* its slot (if any) is not that of another dispatch.
C26_ReleaseOwnMarkerOnly ==
    [][ \A p \in Procs :
          (proc[p].pc = "release" /\ Stepped(p) /\ worker[p] = "done") =>
              held[proc[p].subagentDir] \subseteq {p} ]_vars

\* ---- helper: the failures a dispatch can return after Preparing succeeded
LateErrors == {"AttachmentNotFound", "LaunchFailed", "ResponseUnreadable"}

\* C27 (as stated): at the step in which a dispatch returns a failure after
\* Preparing succeeded, the marker of its slot is present.
C27_MarkerPresentOnFailure ==
    [][ \A p \in Procs :
          (Stepped(p) /\ proc'[p].pc = "done" /\ PastPreparing(p)'
                      /\ proc'[p].error \in LateErrors) =>
              proc[p].subagentDir \in fs'.lock ]_vars

\* C27: a dispatch removes its slot's marker only in the release step of the
\* synchronous success path; a failure return after Preparing succeeded leaves
\* the markers as they are, so the marker is present at the return unless the
\* worker's self-unlock has already run.
C27_DispatchLeavesMarkerOnFailure ==
    [][ \A p \in Procs :
          Stepped(p) =>
              /\ fs'.lock # fs.lock /\ proc[p].pc # "lock" =>
                    /\ proc[p].pc = "release" /\ proc[p].wait
                    /\ proc'[p].pc = "done" /\ proc'[p].exitCode = 0
              /\ (proc'[p].pc = "done" /\ PastPreparing(p)' /\ proc'[p].error \in LateErrors) =>
                    /\ fs'.lock = fs.lock
                    /\ proc[p].subagentDir \in fs'.lock \/ worker[p] = "done" ]_vars

\* the response stayed busy for all the retries while the worker had not yet
\* run its self-unlock: the dispatch returned 1 and the slot is still locked
C27_Witness ==
    \E p \in Procs :
        /\ proc[p].pc = "done" /\ proc[p].error = "ResponseUnreadable"
        /\ proc[p].attempts = maxAttempts
        /\ worker[p] = "renamed"
        /\ proc[p].subagentDir \in fs.lock

\* ---- helper: the dispatch is in the host-readiness phase (ensureWorkspaceFocused)
AwaitingHostReady(p) == proc[p].pc \in {"probe", "launch", "ready"}

\* the request file of the dispatch exists in its slot
RequestWritten(p) ==
    /\ proc[p].subagentDir # Null
    /\ File(proc[p].timestamp, "req") \in fs.messages[proc[p].subagentDir]

\* C28: the request artifact is written only after the host-readiness phase
\* has finished: the step that writes `<timestamp>_req.md` starts from a state
\* in which readiness was already decided (ready or timed out), and while the
\* dispatch is in the readiness phase its request file does not exist.
C28_RequestAfterReadiness ==
    [][ \A p \in Procs :
          /\ (Stepped(p) /\ ~RequestWritten(p) /\ RequestWritten(p)') => proc[p].pc = "issue"
          /\ AwaitingHostReady(p)' => ~RequestWritten(p)' ]_vars

\* C29: within Preparing a dispatch deletes no message file and no
\* per-session prompt file of a slot before it has created that slot's lock
\* marker: every step of a dispatch that removes such a file happens while the
\* dispatch's own marker is on the slot.
C29_PurgeUnderOwnMarker ==
    [][ \A p \in Procs : \A n \in Ordinals :
          (Stepped(p) /\ ( fs.messages[n] \ fs'.messages[n] # {}
                           \/ fs.chatmode[n] \ fs'.chatmode[n] # {} )) =>
              /\ n = proc[p].subagentDir
              /\ n \in fs.lock
              /\ p \in held[n] ]_vars

\* C30: when a dispatch has completed Preparing, the claimed slot holds no
\* artifact of a previous occupant: its messages directory is empty and the
\* only per-session prompt file in the slot is the one copied for this
\* dispatch's session identifier (none if no prompt was supplied).
C30_SlotFreshAfterPreparing ==
    [][ \A p \in Procs :
          (Stepped(p) /\ proc[p].pc \in {"lock", "prompt"} /\ proc'[p].pc = "attach") =>
              /\ fs'.messages[proc[p].subagentDir] = {}
              /\ fs'.chatmode[proc[p].subagentDir] =
                    IF proc[p].promptFile = "file" THEN {proc[p].chatId} ELSE {} ]_vars

\* slot 1 of a used pool was prepared with a prompt file: its old messages and
\* the old session's prompt files are gone, as slot 2 still shows them
C30_Witness ==
    \E p \in Procs :
        /\ proc[p].pc = "attach" /\ ~proc[p].dryRun /\ proc[p].promptFile = "file"
        /\ proc[p].subagentDir = 1
        /\ fs.messages[1] = {} /\ fs.chatmode[1] = {proc[p].chatId}
        /\ fs.messages[2] = {File(1, "req"), File(1, "res")}
        /\ fs.chatmode[2] = {"c0", "wakeup"}

\* C31: the temporary and final response paths named in the request of a
\* dispatch are the paths the dispatch computed, reports to the caller and, in
\* synchronous mode, polls and reads; both lie in the messages directory of the
\* claimed slot and carry the timestamp of the request file.
C31_OneSetOfResponsePaths ==
    \A p \in Procs :
        proc[p].request.final # NoPath =>
            /\ proc[p].request.tmp = proc[p].responseFileTmp
            /\ proc[p].request.final = proc[p].responseFileFinal
            /\ proc[p].request.tmp = MessagePath(proc[p].subagentDir, proc[p].timestamp, "tmp")
            /\ proc[p].request.final = MessagePath(proc[p].subagentDir, proc[p].timestamp, "res")
            /\ \A i \in 1..Len(proc[p].out) :
                  proc[p].out[i].kind \in {"success", "dispatched", "content"} =>
                      /\ proc[p].out[i].slot = proc[p].request.final.dir
                      /\ proc[p].out[i].ts = proc[p].request.final.ts
            /\ proc[p].pc \in {"probe", "launch", "ready", "issue", "await", "read", "release"} =>
                  File(proc[p].request.final.ts, "req") \in fs.messages[proc[p].request.final.dir]
            /\ proc[p].pc \in {"read", "release"} =>
                  File(proc[p].request.final.ts, proc[p].request.final.kind)
                      \in fs.messages[proc[p].request.final.dir]

\* a synchronous dispatch over a used pool, stamped 2: the worker wrote where
\* the request said, the dispatch read that file and printed it
C31_Witness ==
    \E p \in Procs :
        /\ proc[p].pc = "release" /\ proc[p].wait /\ worker[p] = "done"
        /\ proc[p].subagentDir = 1 /\ proc[p].timestamp = 2
        /\ proc[p].request.final = MessagePath(1, 2, "res")
        /\ fs.messages[1] = {File(2, "req"), File(2, "res")}
        /\ fs.messages[2] = {File(1, "req"), File(1, "res")}
        /\ Has(p, OutContent(1, 2))

\* C32: when the host does not have the slot open, the dispatch removes the
\* liveness marker before it launches the host: the marker is absent at the
\* launch, so a readiness result of 'ready' from the poll rests on a marker
\* created after this launch, never on one left by an earlier dispatch.
\* (Stated for a dispatch that has the slot to itself: every other dispatch
\* has returned and the marker on the slot is its own.)
C32_ReadyOnFreshMarker ==
    [][ \A p \in Procs :
          ( /\ Stepped(p) /\ proc[p].pc = "launch"
            /\ held[proc[p].subagentDir] = {p}
            /\ \A q \in Procs \ {p} : proc[q].pc = "done" /\ worker[q] = "done" )
          => proc[p].subagentDir \notin fs.alive ]_vars

\* C33: once the final response exists, the synchronous dispatch ends after at
\* most 10 read attempts: every step of the read loop either succeeds or counts
\* one attempt; a 'file busy' error is retried until the 10th attempt has
\* failed, any other read error ends the dispatch in failure at once.
C33_BoundedReadRetry ==
    [][ \A p \in Procs :
          (Stepped(p) /\ proc[p].pc = "read") =>
              /\ proc[p].attempts < maxAttempts
              /\ proc[p].attempts > 0 => proc[p].readError = "EBUSY"
              /\ \/ proc'[p].pc = "release" /\ proc'[p].attempts = proc[p].attempts
                 \/ /\ proc'[p].attempts = proc[p].attempts + 1
                    /\ proc'[p].readError # "none"
                    /\ IF proc'[p].readError = "EBUSY" /\ proc'[p].attempts < maxAttempts
                         THEN proc'[p].pc = "read"
                         ELSE /\ proc'[p].pc = "done" /\ proc'[p].exitCode = 1
                              /\ proc'[p].error = "ResponseUnreadable" ]_vars

\* the response stayed busy for ten attempts and the dispatch gave up
C33_Witness ==
    \E p \in Procs :
        /\ proc[p].pc = "done" /\ proc[p].exitCode = 1
        /\ proc[p].readError = "EBUSY" /\ proc[p].attempts = maxAttempts
        /\ ResponsePresent(fs, proc[p].responseFileFinal.dir, proc[p].responseFileFinal.ts)

\* C34: dispatchAgent writes no success:true line for a dispatch that then
\* returns a non-zero exit code: a dispatch that has returned and has printed
\* the success line has exit code 0, its request written and its worker
\* instructed (a dry run apart, which writes and launches nothing).
C34_SuccessMeansDispatched ==
    \A p \in Procs :
        ( /\ proc[p].pc = "done" /\ ~proc[p].session
          /\ \E i \in 1..Len(proc[p].out) : proc[p].out[i].kind = "success" )
        => /\ proc[p].exitCode = 0
           /\ ~proc[p].dryRun => RequestWritten(p) /\ Launched(p)

\* C35: a dispatch that selected a slot and whose workspace template path
\* does not exist or names a directory returns exit code 1 with the matching
\* template error, and has created no lock marker, written no configuration
\* and launched no host.
C35_BadTemplateFails ==
    \A p \in Procs :
        ( /\ proc[p].pc = "done" /\ proc[p].subagentDir # Null
          /\ proc[p].workspaceTemplate \in {"notfound", "directory"} )
        => /\ proc[p].exitCode = 1
           /\ proc[p].error = TemplateError(proc[p].workspaceTemplate)
           /\ held[proc[p].subagentDir] = {}
           /\ host.open = {}

\* C36: with force = false, provision removes no lock marker and rewrites no
\* configuration of an existing slot that has one; the only change it makes to
\* an existing slot is the backfill of a missing configuration on an unlocked
\* slot that it reuses (reports as skippedExisting).
C36_NoForceLeavesSlotsAlone ==
    (Provisioned /\ ~opres.force) =>
        /\ fs.lock = opres.pre.lock
        /\ fs.junk = opres.pre.junk
        /\ opres.pre.slots \subseteq fs.slots
        /\ \A n \in opres.pre.slots :
              /\ fs.messages[n] = opres.pre.messages[n]
              /\ opres.pre.workspace[n] # "absent" =>
                    /\ fs.workspace[n] = opres.pre.workspace[n]
                    /\ fs.chatmode[n] = opres.pre.chatmode[n]
              /\ ( fs.workspace[n] # opres.pre.workspace[n]
                   \/ fs.chatmode[n] # opres.pre.chatmode[n] ) =>
                    /\ ~opres.dryRun
                    /\ n \notin opres.pre.lock
                    /\ n \in SeqRange(opres.skippedExisting)
                    /\ fs.workspace[n] = "raw"

\* slot 1 kept the configuration a dispatch gave it, locked slot 2 kept its
\* marker, slot 3 had no configuration and got one
C36_Witness ==
    /\ Provisioned /\ ~opres.force /\ ~opres.dryRun
    /\ opres.pre.slots = {1, 2, 3} /\ opres.pre.lock = {2}
    /\ opres.pre.workspace = <<"default", "raw", "absent">>
    /\ opres.skippedExisting = <<1, 3>>
    /\ fs.workspace = <<"default", "raw", "raw">>
    /\ fs.lock = {2}

BothProvisioned == \A p \in Procs : proc[p].pc = "done"

\* C38: two provision calls running concurrently on one root never both
\* report the same slot as created: their created lists are disjoint, and the
\* new slot directories that exist afterwards are as many as the slots the
\* two calls reported as created.  (Calls without force, not dry runs.)
C38_ConcurrentCreatedDisjoint ==
    (BothProvisioned /\ \A p \in Procs : ~proc[p].force /\ ~proc[p].dryRun) =>
        /\ SeqRange(proc["d1"].created) \cap SeqRange(proc["d2"].created) = {}
        /\ Cardinality(fs.slots \ opres.pre.slots)
              = Len(proc["d1"].created) + Len(proc["d2"].created)

\* C39: the three lists a provision call returns are pairwise disjoint, also
\* when another process creates or removes a slot's lock marker between the
\* enumeration pass and the per-slot pass.
C39_ListsDisjoint ==
    \A p \in Procs :
        proc[p].pc = "done" =>
            /\ SeqRange(proc[p].skippedLocked) \cap SeqRange(proc[p].created) = {}
            /\ SeqRange(proc[p].skippedLocked) \cap SeqRange(proc[p].skippedExisting) = {}
            /\ SeqRange(proc[p].created) \cap SeqRange(proc[p].skippedExisting) = {}

\* ---- helpers of the settings claim
\* index at which the glob suffix of a key starts: after the last "/" before
\* the first wildcard, 0 when the wildcard is in the first segment
SuffixStart(key) == lastIndexOf(key, "/", search(key, 0)) + 1

\* the directory part of a key before its glob suffix ("." if there is none)
DirectoryPrefix(key) ==
    IF SuffixStart(key) = 0 THEN <<".">> ELSE substring(key, 0, SuffixStart(key) - 1)

\* C40: for every relative key of a settings location map the materialized
\* key is the templateDir-resolved non-glob directory prefix, one "/", and the
\* original glob suffix, also when the wildcard is in the key's first segment
\* ("**/*.a" under /t gives "/t/**/*.a"); a relative key without a wildcard is
\* resolved as a whole and an absolute key is unchanged.
C40_GlobKeyUnderTemplateDir ==
    opres.op = "transformSettings" =>
        LET key == opres.locationPath
            dir == DirString(opres.templateDir)
        IN  opres.resolvedPath =
                IF isAbsoluteString(key) THEN key
                ELSE IF search(key, 0) = -1 THEN resolveString(dir, key)
                ELSE resolveString(dir, DirectoryPrefix(key)) \o <<"/">>
                         \o substringFrom(key, SuffixStart(key))
====
